---- MODULE Spec2Model ----
(***************************************************************************)
(* State-machine model of the splat renderer's per-frame rasterisation     *)
(* pipeline: depth-key encoding and radix sort (RadixSorter.ts), exclusive *)
(* scan (PrefixSumScanner + prefix-sum.wgsl), GPU tile binning             *)
(* (GPUTileBinner + count-tile-hits.wgsl + fill-tile-lists.wgsl), the CPU  *)
(* reference binning (TileBinner.binSorted) and the projector              *)
(* (SplatProjector).                                                       *)
(*                                                                         *)
(* Arrays are functions over 0..n-1, as the code indexes them.  A 32-bit   *)
(* word (u32, or the bit pattern of an f32) is a function from byte        *)
(* position 0..3 (0 = least significant) to 0..255, so that the bitwise    *)
(* operations and the 8-bit radix digits keep their full width.            *)
(***************************************************************************)
EXTENDS Integers, Sequences, FiniteSets, TLC

(***************************************************************************)
(* State.  Each subsystem has its own group of variables and its own       *)
(* specification; a specification holds the other groups at rest.          *)
(***************************************************************************)
\* RadixSorter: fields, device buffers and the position inside sort()
VARIABLES rsNumSplats, projectedDepth, keysBuffer, payloadBuffer, keysBBuffer,
          payloadBBuffer, histogramsBuffer, sortedIndices, sortPc, sortPass, sortFrame

\* PrefixSumScanner: buffers, workgroup memory and the position inside the shader
VARIABLES scanNumElements, scanInput, scanOutput, scanTemp, scanPc, scanD, scanOffset,
          scanI, scanSum

\* GPUTileBinner: frame inputs, fields, device buffers, host position, device queue
VARIABLES numSplats, screenWidth, screenHeight, projectedSplats, sortedIndicesBuffer,
          tileCountsBuffer, tileOffsetsBuffer, tileCurrentOffsetsBuffer,
          tileIndicesBuffer, currentNumTiles, currentTotalIndices, totalIndices,
          commandEncoder2, binPc, binFrame, queue, devOp, threadPos, executed, fillLog

\* TileBinner (CPU reference): fields and the arrays binSorted builds
VARIABLES tbNumTilesX, tbNumTilesY, tbNumTiles, tileCounts, tileOffsets,
          totalSplatCount, indices, splatIndicesBuffer, tbRan

\* SplatProjector followed by the count and fill passes: scene, projected splats,
\* tile counters, the threads' positions and the log of what each thread touched
VARIABLES worldSplats, pjProjected, pjTileCounts, pjPc, pjThreadPos, pjCountLog,
          pjFillLog

\* Depth key encoders: the depths of two splats as f32 bit patterns, the keys
\* RadixSorter.sort computes for them and the keys extract-depth-keys.wgsl writes
VARIABLES encDepth, cpuKeys, gpuKeys

\* Tile rasteriser, one pixel thread: the splats of the tile's segment as they
\* evaluate at the pixel, the loop index, the accumulated colour and alpha, the
\* colour stored to the output texture, the thread's position
VARIABLES pxSegment, pxI, pxColor, pxAlpha, pxFinalColor, pxPc

\* Tile rasteriser, the pixel threads of one dispatch: each pixel's segment as its
\* splats evaluate there, each thread's loop index, the colour and alpha
\* accumulators, the threads' positions and the output texture
VARIABLES imgSegments, imgI, imgColor, imgAlpha, imgPc, outputTexture

\* PerTileSorter, one dispatch: tile counts and offsets, the packed index buffer,
\* the workgroup being run and the tiles already done, its shared arrays, the
\* iteration of the sort loop, each thread's position and its two temporaries
VARIABLES ptCounts, ptOffsets, ptIndices, ptFilled, ptTile, ptDone, sharedIndices, sharedDepths,
          ptIteration, ptThreadPc, ptTemp

sortVars == <<rsNumSplats, projectedDepth, keysBuffer, payloadBuffer, keysBBuffer,
              payloadBBuffer, histogramsBuffer, sortedIndices, sortPc, sortPass, sortFrame>>

scanVars == <<scanNumElements, scanInput, scanOutput, scanTemp, scanPc, scanD,
              scanOffset, scanI, scanSum>>

binVars == <<numSplats, screenWidth, screenHeight, projectedSplats, sortedIndicesBuffer,
             tileCountsBuffer, tileOffsetsBuffer, tileCurrentOffsetsBuffer,
             tileIndicesBuffer, currentNumTiles, currentTotalIndices, totalIndices,
             commandEncoder2, binPc, binFrame, queue, devOp, threadPos, executed, fillLog>>

tbVars == <<tbNumTilesX, tbNumTilesY, tbNumTiles, tileCounts, tileOffsets,
            totalSplatCount, indices, splatIndicesBuffer, tbRan>>

projVars == <<worldSplats, pjProjected, pjTileCounts, pjPc, pjThreadPos, pjCountLog,
              pjFillLog>>

keyVars == <<encDepth, cpuKeys, gpuKeys>>

rastVars == <<pxSegment, pxI, pxColor, pxAlpha, pxFinalColor, pxPc>>

imgVars == <<imgSegments, imgI, imgColor, imgAlpha, imgPc, outputTexture>>

ptVars == <<ptCounts, ptOffsets, ptIndices, ptFilled, ptTile, ptDone, sharedIndices, sharedDepths,
            ptIteration, ptThreadPc, ptTemp>>

\* PointManager and fitSplatsToScene: the ping-pong position buffers
VARIABLES currentBufferIsA, positionBuffers, fitPc, fitI, fitCall, fitRead, fitWrite

pmVars == <<currentBufferIsA, positionBuffers, fitPc, fitI, fitCall, fitRead, fitWrite>>

\* BitonicSorter: the buffers, the parameter uniform, the recording loop and the device
VARIABLES bsInput, bsDepths, bsIndices, bsUniform, bsK, bsJExp, bsRecorded, bsExecuted, bsPc

bsVars == <<bsInput, bsDepths, bsIndices, bsUniform, bsK, bsJExp, bsRecorded, bsExecuted, bsPc>>

\* main.ts: the canvas, and the viewport each stage of the running frame was given
VARIABLES canvasSize, frPc, frUniformSize, frBinSize, frRenderSize, frFrame

frVars == <<canvasSize, frPc, frUniformSize, frBinSize, frRenderSize, frFrame>>

\* SDFScene and the scene-parameter buffer of GradientSampler / CurvatureSampler
VARIABLES scRoot, scOperations, pendingNode, primitiveMap, currentStructureHash,
          sceneParamsBufferSize, scWritten

scVars == <<scRoot, scOperations, pendingNode, primitiveMap, currentStructureHash,
            sceneParamsBufferSize, scWritten>>

\* PerformanceMonitor: the feature flag, the history kept per name, the stages the
\* last readTimings() returned and the number of readings taken
VARIABLES timestampsSupported, timings, stages, perfReadings

perfVars == <<timestampsSupported, timings, stages, perfReadings>>

vars == <<sortVars, scanVars, binVars, tbVars, projVars, keyVars, rastVars, imgVars,
          ptVars,
          pmVars,
          bsVars,
          frVars,
          scVars,
          perfVars>>

(***************************************************************************)
(* Generic helpers                                                         *)
(***************************************************************************)
Pow2(n) == 2 ^ n

Min(a, b) == IF a <= b THEN a ELSE b

Max(a, b) == IF a >= b THEN a ELSE b

\* Math.ceil(a / b) for a >= 0, b > 0
CeilDiv(a, b) == (a + b - 1) \div b

RECURSIVE SumRange(_, _, _)
\* sum of f[lo] .. f[hi-1]
SumRange(f, lo, hi) ==
  IF hi <= lo THEN 0
  ELSE IF hi = lo + 1 THEN f[lo]
  ELSE LET m == (lo + hi) \div 2 IN SumRange(f, lo, m) + SumRange(f, m, hi)

\* sum of f[0] .. f[n-1]
SumTo(f, n) == SumRange(f, 0, n)

RECURSIVE SumOver(_, _)
\* sum of f[x] over x in S
SumOver(f, S) ==
  IF S = {} THEN 0
  ELSE LET x == CHOOSE y \in S : TRUE IN f[x] + SumOver(f, S \ {x})

Range(f) == {f[i] : i \in DOMAIN f}

(***************************************************************************)
(* 32-bit words                                                            *)
(***************************************************************************)
Word(b3, b2, b1, b0) == (0 :> b0 @@ 1 :> b1 @@ 2 :> b2 @@ 3 :> b3)

\* u32 value of a small index
ToWord(i) == Word(0, 0, (i \div 256) % 256, i % 256)

ZeroWord == Word(0, 0, 0, 0)

\* 0xffffffff
AllOnes == Word(255, 255, 255, 255)

\* w ^ 0xffffffff
FlipAll(w) == [p \in 0..3 |-> 255 - w[p]]

\* w ^ 0x80000000
FlipSign(w) == [p \in 0..3 |-> IF p = 3 THEN (w[3] + 128) % 256 ELSE w[p]]

\* w >> 31u on a u32
SignBit(w) == w[3] \div 128

Hi16(w) == w[3] * 256 + w[2]

Lo16(w) == w[1] * 256 + w[0]

\* unsigned comparison of two words
WordLeq(a, b) == Hi16(a) < Hi16(b) \/ (Hi16(a) = Hi16(b) /\ Lo16(a) <= Lo16(b))

\* a <= b as non-NaN f32 values given by their bit patterns
FloatLeq(a, b) ==
  LET ma == [a EXCEPT ![3] = a[3] % 128]
      mb == [b EXCEPT ![3] = b[3] % 128]
  IN  CASE SignBit(a) = 0 /\ SignBit(b) = 0 -> WordLeq(ma, mb)
        [] SignBit(a) = 1 /\ SignBit(b) = 1 -> WordLeq(mb, ma)
        [] SignBit(a) = 1 /\ SignBit(b) = 0 -> TRUE
        [] OTHER -> ma = ZeroWord /\ mb = ZeroWord

(***************************************************************************)
(* Radix sorter (RadixSorter.ts)                                           *)
(***************************************************************************)
\* bounds of the sorter model
MaxSplats == 3

MaxFrames == 2

\* workgroup size and rows per thread, scaled down from 256 and 15
HISTOGRAM_WG_SIZE == 2

HISTOGRAM_BLOCK_ROWS == 1

RADIX_LOG2 == 8

RADIX_SIZE == Pow2(RADIX_LOG2)

\* a scatter loop that stops one pass early, leaving the result in pair B
OddNumPasses == (32 \div RADIX_LOG2) - 1

\* 32-bit keys / 8 bits per pass
NumPasses == 32 \div RADIX_LOG2

\* depth bit patterns a frame's projection can hand to the sorter:
\* 0.1 = 0x3dcccccd, 1.0 = 0x3f800000, 2.5 = 0x40200000 (distance() is never negative)
DepthBits == {Word(61, 204, 204, 205), Word(63, 128, 0, 0), Word(64, 32, 0, 0)}

\* RadixSorter constructor: pad to a multiple of the block size
BlockKvs == HISTOGRAM_WG_SIZE * HISTOGRAM_BLOCK_ROWS

PaddedSize(n) == CeilDiv(n, BlockKvs) * BlockKvs

\* JavaScript floatBits >> 31: the operand is converted to a signed 32-bit integer
\* and the shift propagates the sign, giving -1 when bit 31 is set and 0 otherwise
JsShiftRight31(w) == IF w[3] >= 128 THEN -1 ELSE 0

\* mask = (floatBits >> 31) === 1 ? 0xffffffff : 0x80000000; keys[i] = floatBits ^ mask
\* (the store into the Uint32Array keeps the low 32 bits)
EncodeKeyCPU(floatBits) ==
  IF JsShiftRight31(floatBits) = 1 THEN FlipAll(floatBits) ELSE FlipSign(floatBits)

\* digit of a key examined by scatter pass p: (key >> (p * 8)) & 0xff
Digit(key, p) == key[p]

\* histogram of pass p over the whole padded key array
Histogram(keys, p) ==
  [d \in 0..(RADIX_SIZE - 1) |-> Cardinality({i \in DOMAIN keys : Digit(keys[i], p) = d})]

\* exclusive scan of a 256-bucket histogram: the global base of each digit
PrefixHistogram(h) ==
  LET nonzero == {e \in DOMAIN h : h[e] > 0}
  IN  [d \in DOMAIN h |-> SumOver(h, {e \in nonzero : e < d})]

\* scatter position: global_base[digit] + rank among the earlier keys of that digit
ScatterPos(keys, p, base, i) ==
  base[Digit(keys[i], p)]
    + Cardinality({j \in DOMAIN keys : j < i /\ Digit(keys[j], p) = Digit(keys[i], p)})

\* one scatter pass over an array pair: the (key, payload) at i moves to ScatterPos
Scatter(vals, keys, p, base) ==
  [q \in DOMAIN keys |-> vals[CHOOSE i \in DOMAIN keys : ScatterPos(keys, p, base, i) = q]]

ZeroArray(n) == [i \in 0..(n - 1) |-> ZeroWord]

ZeroHist == [p \in 0..(NumPasses - 1) |-> [d \in 0..(RADIX_SIZE - 1) |-> 0]]

\* new RadixSorter(device, numSplats): createBuffer zero-fills every buffer
SortInit ==
  /\ rsNumSplats \in 0..MaxSplats
  /\ projectedDepth = <<>>
  /\ keysBuffer = ZeroArray(PaddedSize(rsNumSplats))
  /\ payloadBuffer = ZeroArray(PaddedSize(rsNumSplats))
  /\ keysBBuffer = ZeroArray(PaddedSize(rsNumSplats))
  /\ payloadBBuffer = ZeroArray(PaddedSize(rsNumSplats))
  /\ histogramsBuffer = ZeroHist
  /\ sortedIndices = <<>>
  /\ sortPc = "idle"
  /\ sortPass = 0
  /\ sortFrame = 0

\* sort(): copy the projected buffer to the readback buffer, submit, mapAsync
SortReadProjected ==
  /\ sortPc \in {"idle", "done"}
  /\ sortFrame < MaxFrames
  /\ \E d \in [0..(rsNumSplats - 1) -> DepthBits] : projectedDepth' = d
  /\ sortFrame' = sortFrame + 1
  /\ sortPc' = "read"
  /\ UNCHANGED <<rsNumSplats, keysBuffer, payloadBuffer, keysBBuffer, payloadBBuffer,
                 histogramsBuffer, sortedIndices, sortPass>>
  /\ UNCHANGED <<scanVars, binVars, tbVars, projVars, keyVars, rastVars, imgVars, ptVars,
                 pmVars, bsVars, frVars, scVars, perfVars>>

\* sort(): keys[i] = encode(depth[i]), payload[i] = i for i < numSplats, then
\* writeBuffer(keysBuffer, 0, keys) and writeBuffer(payloadBuffer, 0, payload):
\* only the first numSplats words of each buffer are overwritten
SortUploadKeys ==
  /\ sortPc = "read"
  /\ keysBuffer' = [i \in DOMAIN keysBuffer |->
                      IF i < rsNumSplats THEN EncodeKeyCPU(projectedDepth[i])
                                         ELSE keysBuffer[i]]
  /\ payloadBuffer' = [i \in DOMAIN payloadBuffer |->
                         IF i < rsNumSplats THEN ToWord(i) ELSE payloadBuffer[i]]
  /\ sortPc' = "uploaded"
  /\ UNCHANGED <<rsNumSplats, projectedDepth, keysBBuffer, payloadBBuffer,
                 histogramsBuffer, sortedIndices, sortPass, sortFrame>>
  /\ UNCHANGED <<scanVars, binVars, tbVars, projVars, keyVars, rastVars, imgVars, ptVars,
                 pmVars, bsVars, frVars, scVars, perfVars>>

\* computePass1: zero_histograms
SortZeroHistograms ==
  /\ sortPc = "uploaded"
  /\ histogramsBuffer' = ZeroHist
  /\ sortPc' = "zeroed"
  /\ UNCHANGED <<rsNumSplats, projectedDepth, keysBuffer, payloadBuffer, keysBBuffer,
                 payloadBBuffer, sortedIndices, sortPass, sortFrame>>
  /\ UNCHANGED <<scanVars, binVars, tbVars, projVars, keyVars, rastVars, imgVars, ptVars,
                 pmVars, bsVars, frVars, scVars, perfVars>>

\* computePass2: calculate_histogram over every block of the padded key array
SortCalculateHistogram ==
  /\ sortPc = "zeroed"
  /\ histogramsBuffer' = [p \in 0..(NumPasses - 1) |-> Histogram(keysBuffer, p)]
  /\ sortPc' = "histogram"
  /\ UNCHANGED <<rsNumSplats, projectedDepth, keysBuffer, payloadBuffer, keysBBuffer,
                 payloadBBuffer, sortedIndices, sortPass, sortFrame>>
  /\ UNCHANGED <<scanVars, binVars, tbVars, projVars, keyVars, rastVars, imgVars, ptVars,
                 pmVars, bsVars, frVars, scVars, perfVars>>

\* computePass3: prefix_histogram, one workgroup per pass
SortPrefixHistogram ==
  /\ sortPc = "histogram"
  /\ histogramsBuffer' = [p \in 0..(NumPasses - 1) |-> PrefixHistogram(histogramsBuffer[p])]
  /\ sortPass' = 0
  /\ sortPc' = "scatter"
  /\ UNCHANGED <<rsNumSplats, projectedDepth, keysBuffer, payloadBuffer, keysBBuffer,
                 payloadBBuffer, sortedIndices, sortFrame>>
  /\ UNCHANGED <<scanVars, binVars, tbVars, projVars, keyVars, rastVars, imgVars, ptVars,
                 pmVars, bsVars, frVars, scVars, perfVars>>

\* scatter loop, pass % 2 = 0: scatter_even reads pair A and writes pair B
SortScatterEven ==
  /\ sortPc = "scatter"
  /\ sortPass < NumPasses
  /\ sortPass % 2 = 0
  /\ keysBBuffer' = Scatter(keysBuffer, keysBuffer, sortPass, histogramsBuffer[sortPass])
  /\ payloadBBuffer' = Scatter(payloadBuffer, keysBuffer, sortPass, histogramsBuffer[sortPass])
  /\ sortPass' = sortPass + 1
  /\ UNCHANGED <<rsNumSplats, projectedDepth, keysBuffer, payloadBuffer,
                 histogramsBuffer, sortedIndices, sortPc, sortFrame>>
  /\ UNCHANGED <<scanVars, binVars, tbVars, projVars, keyVars, rastVars, imgVars, ptVars,
                 pmVars, bsVars, frVars, scVars, perfVars>>

\* scatter loop, pass % 2 = 1: scatter_odd reads pair B and writes pair A
SortScatterOdd ==
  /\ sortPc = "scatter"
  /\ sortPass < NumPasses
  /\ sortPass % 2 = 1
  /\ keysBuffer' = Scatter(keysBBuffer, keysBBuffer, sortPass, histogramsBuffer[sortPass])
  /\ payloadBuffer' = Scatter(payloadBBuffer, keysBBuffer, sortPass, histogramsBuffer[sortPass])
  /\ sortPass' = sortPass + 1
  /\ UNCHANGED <<rsNumSplats, projectedDepth, keysBBuffer, payloadBBuffer,
                 histogramsBuffer, sortedIndices, sortPc, sortFrame>>
  /\ UNCHANGED <<scanVars, binVars, tbVars, projVars, keyVars, rastVars, imgVars, ptVars,
                 pmVars, bsVars, frVars, scVars, perfVars>>

\* copy payloadBuffer[0 .. numSplats) to the result buffer, mapAsync, slice()
SortReadResult ==
  /\ sortPc = "scatter"
  /\ sortPass = NumPasses
  /\ sortedIndices' = [i \in 0..(rsNumSplats - 1) |-> payloadBuffer[i]]
  /\ sortPc' = "done"
  /\ UNCHANGED <<rsNumSplats, projectedDepth, keysBuffer, payloadBuffer, keysBBuffer,
                 payloadBBuffer, histogramsBuffer, sortPass, sortFrame>>
  /\ UNCHANGED <<scanVars, binVars, tbVars, projVars, keyVars, rastVars, imgVars, ptVars,
                 pmVars, bsVars, frVars, scVars, perfVars>>

SortNext ==
  \/ SortReadProjected
  \/ SortUploadKeys
  \/ SortZeroHistograms
  \/ SortCalculateHistogram
  \/ SortPrefixHistogram
  \/ SortScatterEven
  \/ SortScatterOdd
  \/ SortReadResult


(***************************************************************************)
(* Exclusive scan (PrefixSumScanner, prefix-sum.wgsl)                      *)
(***************************************************************************)
\* log2 of the scan workgroup size, scaled down from 8 (256 threads)
ScanWgLog2 == 1

\* largest tile counter fed to the scan
MaxCount == 1

WORKGROUP_SIZE == Pow2(ScanWgLog2)

\* 512 in the source: WORKGROUP_SIZE * 2
maxSinglePassElements == WORKGROUP_SIZE * 2

\* array lengths the scan is run on: below, at and above the single-pass limit
ScanLens == 0..(maxSinglePassElements + 1)

\* prefix-sum.wgsl: load two elements per thread, zero beyond numElements
ScanLoad(input, n) ==
  [k \in 0..(2 * WORKGROUP_SIZE - 1) |-> IF k < n THEN input[k] ELSE 0]

\* indices touched by thread tid at tree stride offset
ScanAi(offset, tid) == offset * (2 * tid + 1) - 1

ScanBi(offset, tid) == offset * (2 * tid + 2) - 1

\* one up-sweep level: every thread tid < d does temp[bi] += temp[ai]
UpSweepLevel(temp, d, offset) ==
  [k \in DOMAIN temp |->
     IF \E tid \in 0..(d - 1) : k = ScanBi(offset, tid)
       THEN temp[k] + temp[k - offset]
       ELSE temp[k]]

\* the down-sweep started without clearing the root
ScanClearLastSkipped(temp) == temp

\* tid == 0: temp[WORKGROUP_SIZE * 2 - 1] = 0
ScanClearLast(temp) == [temp EXCEPT ![2 * WORKGROUP_SIZE - 1] = 0]

\* one down-sweep level: t = temp[ai]; temp[ai] = temp[bi]; temp[bi] += t
DownSweepLevel(temp, d, offset) ==
  [k \in DOMAIN temp |->
     IF \E tid \in 0..(d - 1) : k = ScanAi(offset, tid) THEN temp[k + offset]
     ELSE IF \E tid \in 0..(d - 1) : k = ScanBi(offset, tid) THEN temp[k] + temp[k - offset]
     ELSE temp[k]]

\* write back with bounds checking: only the first numElements words are written
ScanWriteBack(output, temp, n) ==
  [k \in DOMAIN output |-> IF k < n THEN temp[k] ELSE output[k]]

RECURSIVE UpSweep(_, _, _)
UpSweep(temp, d, offset) ==
  IF d = 0 THEN temp ELSE UpSweep(UpSweepLevel(temp, d, offset), d \div 2, offset * 2)

RECURSIVE DownSweep(_, _, _)
\* offset is the stride before this level's "offset >>= 1"
DownSweep(temp, d, offset) ==
  IF d > WORKGROUP_SIZE THEN temp
  ELSE DownSweep(DownSweepLevel(temp, d, offset \div 2), d * 2, offset \div 2)

\* the whole single-workgroup shader
ScanShader(input, output, n) ==
  ScanWriteBack(output,
                DownSweep(ScanClearLast(UpSweep(ScanLoad(input, n), WORKGROUP_SIZE, 1)),
                          1, 2 * WORKGROUP_SIZE),
                n)

RECURSIVE ScanCPULoop(_, _, _, _, _)
\* scanCPU: for (i = 0; i < numElements; i++) { outputData[i] = sum; sum += inputData[i]; }
ScanCPULoop(input, n, i, sum, out) ==
  IF i >= n THEN out
  ELSE ScanCPULoop(input, n, i + 1, sum + input[i], [out EXCEPT ![i] = sum])

\* an input buffer of counters and a freshly created (zero-filled) output buffer
ScanInit ==
  /\ scanNumElements \in ScanLens
  /\ scanInput \in [0..(scanNumElements - 1) -> 0..MaxCount]
  /\ scanOutput = [k \in 0..(scanNumElements - 1) |-> 0]
  /\ scanTemp = [k \in 0..(2 * WORKGROUP_SIZE - 1) |-> 0]
  /\ scanPc = "idle"
  /\ scanD = 0
  /\ scanOffset = 0
  /\ scanI = 0
  /\ scanSum = 0

\* scan(), numElements <= maxSinglePassElements: scanSinglePass records one dispatch
ScanSinglePass ==
  /\ scanPc = "idle"
  /\ scanNumElements <= maxSinglePassElements
  /\ scanPc' = "recorded"
  /\ UNCHANGED <<scanNumElements, scanInput, scanOutput, scanTemp, scanD, scanOffset,
                 scanI, scanSum>>
  /\ UNCHANGED <<sortVars, binVars, tbVars, projVars, keyVars, rastVars, imgVars, ptVars,
                 pmVars, bsVars, frVars, scVars, perfVars>>

\* the recorded dispatch runs once its command encoder is submitted: load phase
ScanRunLoad ==
  /\ scanPc = "recorded"
  /\ scanTemp' = ScanLoad(scanInput, scanNumElements)
  /\ scanD' = WORKGROUP_SIZE
  /\ scanOffset' = 1
  /\ scanPc' = "upsweep"
  /\ UNCHANGED <<scanNumElements, scanInput, scanOutput, scanI, scanSum>>
  /\ UNCHANGED <<sortVars, binVars, tbVars, projVars, keyVars, rastVars, imgVars, ptVars,
                 pmVars, bsVars, frVars, scVars, perfVars>>

\* for (d = WORKGROUP_SIZE; d > 0; d >>= 1) { ...; offset <<= 1; workgroupBarrier(); }
ScanUpSweep ==
  /\ scanPc = "upsweep"
  /\ scanD > 0
  /\ scanTemp' = UpSweepLevel(scanTemp, scanD, scanOffset)
  /\ scanD' = scanD \div 2
  /\ scanOffset' = scanOffset * 2
  /\ UNCHANGED <<scanNumElements, scanInput, scanOutput, scanPc, scanI, scanSum>>
  /\ UNCHANGED <<sortVars, binVars, tbVars, projVars, keyVars, rastVars, imgVars, ptVars,
                 pmVars, bsVars, frVars, scVars, perfVars>>

ScanClear ==
  /\ scanPc = "upsweep"
  /\ scanD = 0
  /\ scanTemp' = ScanClearLast(scanTemp)
  /\ scanD' = 1
  /\ scanPc' = "downsweep"
  /\ UNCHANGED <<scanNumElements, scanInput, scanOutput, scanOffset, scanI, scanSum>>
  /\ UNCHANGED <<sortVars, binVars, tbVars, projVars, keyVars, rastVars, imgVars, ptVars,
                 pmVars, bsVars, frVars, scVars, perfVars>>

\* for (d = 1; d <= WORKGROUP_SIZE; d <<= 1) { offset >>= 1; ...; workgroupBarrier(); }
ScanDownSweep ==
  /\ scanPc = "downsweep"
  /\ scanD <= WORKGROUP_SIZE
  /\ scanTemp' = DownSweepLevel(scanTemp, scanD, scanOffset \div 2)
  /\ scanOffset' = scanOffset \div 2
  /\ scanD' = scanD * 2
  /\ UNCHANGED <<scanNumElements, scanInput, scanOutput, scanPc, scanI, scanSum>>
  /\ UNCHANGED <<sortVars, binVars, tbVars, projVars, keyVars, rastVars, imgVars, ptVars,
                 pmVars, bsVars, frVars, scVars, perfVars>>

ScanWrite ==
  /\ scanPc = "downsweep"
  /\ scanD > WORKGROUP_SIZE
  /\ scanOutput' = ScanWriteBack(scanOutput, scanTemp, scanNumElements)
  /\ scanPc' = "done"
  /\ UNCHANGED <<scanNumElements, scanInput, scanTemp, scanD, scanOffset, scanI, scanSum>>
  /\ UNCHANGED <<sortVars, binVars, tbVars, projVars, keyVars, rastVars, imgVars, ptVars,
                 pmVars, bsVars, frVars, scVars, perfVars>>

\* scan(), numElements > maxSinglePassElements: scanCPU reads the input back
ScanCPURead ==
  /\ scanPc = "idle"
  /\ scanNumElements > maxSinglePassElements
  /\ scanTemp' = [k \in 0..(scanNumElements - 1) |-> 0]
  /\ scanI' = 0
  /\ scanSum' = 0
  /\ scanPc' = "cpu"
  /\ UNCHANGED <<scanNumElements, scanInput, scanOutput, scanD, scanOffset>>
  /\ UNCHANGED <<sortVars, binVars, tbVars, projVars, keyVars, rastVars, imgVars, ptVars,
                 pmVars, bsVars, frVars, scVars, perfVars>>

\* one iteration of the CPU loop (scanTemp holds outputData)
ScanCPUStep ==
  /\ scanPc = "cpu"
  /\ scanI < scanNumElements
  /\ scanTemp' = [scanTemp EXCEPT ![scanI] = scanSum]
  /\ scanSum' = scanSum + scanInput[scanI]
  /\ scanI' = scanI + 1
  /\ UNCHANGED <<scanNumElements, scanInput, scanOutput, scanPc, scanD, scanOffset>>
  /\ UNCHANGED <<sortVars, binVars, tbVars, projVars, keyVars, rastVars, imgVars, ptVars,
                 pmVars, bsVars, frVars, scVars, perfVars>>

\* device.queue.writeBuffer(outputBuffer, 0, outputData)
ScanCPUWrite ==
  /\ scanPc = "cpu"
  /\ scanI >= scanNumElements
  /\ scanOutput' = scanTemp
  /\ scanPc' = "done"
  /\ UNCHANGED <<scanNumElements, scanInput, scanTemp, scanD, scanOffset, scanI, scanSum>>
  /\ UNCHANGED <<sortVars, binVars, tbVars, projVars, keyVars, rastVars, imgVars, ptVars,
                 pmVars, bsVars, frVars, scVars, perfVars>>

ScanNext ==
  \/ ScanSinglePass
  \/ ScanRunLoad
  \/ ScanUpSweep
  \/ ScanClear
  \/ ScanDownSweep
  \/ ScanWrite
  \/ ScanCPURead
  \/ ScanCPUStep
  \/ ScanCPUWrite


(***************************************************************************)
(* Properties of the scanner (SpecScan)                                    *)
(***************************************************************************)
\* C7: once the scan has run, offsets[t] is the sum of counts[u] over u < t, for every
\* element t and every array length (at most and above the single-pass limit)
C7_ScanExclusive ==
  scanPc = "done" =>
    \A t \in 0..(scanNumElements - 1) : scanOutput[t] = SumTo(scanInput, t)

\* a scan above the single-pass limit, and one at it, have completed with non-zero sums
C7_Witness ==
  /\ scanPc = "done"
  /\ scanNumElements = maxSinglePassElements
  /\ scanOutput[scanNumElements - 1] > 1
  /\ scanInput[0] > 0

(***************************************************************************)
(* Tile binning: the overlap predicates                                    *)
(***************************************************************************)
\* tile edge in pixels (main.ts: new TileBinner(device, numPoints, 16))
tileSize == 16

\* WGSL u32(f32): a negative value converts to 0
F32ToU32(x) == Max(0, x)

\* count-tile-hits.wgsl / fill-tile-lists.wgsl: the tile range of a projected splat
\*   minTile = u32(max(0.0, floor(boundsMin / tileSize)))
\*   maxTile = u32(min(f32(numTiles - 1), floor(boundsMax / tileSize)))
\* the minimum tile rounded up instead of down
GpuMinTileCeil(boundsMin) == F32ToU32(Max(0, (boundsMin + tileSize - 1) \div tileSize))

GpuMinTile(boundsMin) == F32ToU32(Max(0, boundsMin \div tileSize))

GpuMaxTile(boundsMax, nTiles) == F32ToU32(Min(nTiles - 1, boundsMax \div tileSize))

\* the tiles a GPU thread visits, as (ty, tx) pairs of its two nested loops
GpuTileSet(p, ntx, nty) ==
  {<<ty, tx>> : ty \in GpuMinTile(p.minY)..GpuMaxTile(p.maxY, nty),
                tx \in GpuMinTile(p.minX)..GpuMaxTile(p.maxX, ntx)}

\* position of (ty, tx) in loop order: ty outer, tx inner
LoopRank(S, ty, tx) ==
  Cardinality({q \in S : q[1] < ty \/ (q[1] = ty /\ q[2] < tx)})

\* the tile indices ty * numTilesX + tx in the order the nested loops visit them
TileSeq(S, ntx) ==
  [k \in 1..Cardinality(S) |->
     LET q == CHOOSE r \in S : LoopRank(S, r[1], r[2]) = k - 1
     IN  q[1] * ntx + q[2]]

GpuTileList(p, ntx, nty) == TileSeq(GpuTileSet(p, ntx, nty), ntx)

\* TileBinner.createCountPipeline / createBinPipeline shaders: clamp the bounds to
\* the screen, return when the clamp is empty, then floor to tiles
CountPipelineTileSet(p, w, h, ntx, nty) ==
  LET minX == Max(p.minX, 0)
      minY == Max(p.minY, 0)
      maxX == Min(p.maxX, w)
      maxY == Min(p.maxY, h)
  IN  IF minX >= maxX \/ minY >= maxY THEN {}
      ELSE {<<ty, tx>> :
              ty \in F32ToU32(minY \div tileSize)..Min(F32ToU32(maxY \div tileSize), nty - 1),
              tx \in F32ToU32(minX \div tileSize)..Min(F32ToU32(maxX \div tileSize), ntx - 1)}

\* TileBinner.binSorted: clamp the bounds to the screen, skip an empty clamp,
\* then floor to tiles
CpuTileSet(p, w, h, ntx, nty) ==
  LET minX == Max(p.minX, 0)
      minY == Max(p.minY, 0)
      maxX == Min(p.maxX, w)
      maxY == Min(p.maxY, h)
  IN  IF minX >= maxX \/ minY >= maxY THEN {}
      ELSE {<<ty, tx>> : ty \in (minY \div tileSize)..Min(maxY \div tileSize, nty - 1),
                         tx \in (minX \div tileSize)..Min(maxX \div tileSize, ntx - 1)}

CpuTileList(p, w, h, ntx, nty) == TileSeq(CpuTileSet(p, w, h, ntx, nty), ntx)

(***************************************************************************)
(* Frame inputs of the binners                                             *)
(***************************************************************************)
\* bounds of the binner model
MaxBinSplats == 2

MaxBinFrames == 2

MaxDepth == 2

\* viewport sizes: 2x2 tiles, 2x1, 1x2 and 3x2 (above the single-pass scan limit)
Screens == {<<32, 32>>, <<32, 16>>, <<16, 32>>, <<48, 32>>}

\* projected screen radius in pixels and the AABB half extent the projector pads it to
ScreenRadius == 4

PaddedRadius == (ScreenRadius * 3) \div 2

\* projected centres: inside one tile, on the corner of four tiles, left of the
\* screen, right of every screen, above the screen
Centres == {<<8, 8>>, <<16, 16>>, <<-12, 8>>, <<108, 8>>, <<8, -12>>}

\* SplatProjector: boundsMin = centre - paddedRadius, boundsMax = centre + paddedRadius
ProjectedAt(c, d) ==
  [minX |-> c[1] - PaddedRadius, minY |-> c[2] - PaddedRadius,
   maxX |-> c[1] + PaddedRadius, maxY |-> c[2] + PaddedRadius, depth |-> d]

ProjectedDomain == {ProjectedAt(c, d) : c \in Centres, d \in 1..MaxDepth}

\* permutations of 0..n-1 that walk the splats far to near
FarToNear(proj, n) ==
  {f \in [0..(n - 1) -> 0..(n - 1)] :
     /\ \A i, j \in 0..(n - 1) : i # j => f[i] # f[j]
     /\ \A i \in 0..(n - 2) : proj[f[i]].depth >= proj[f[i + 1]].depth}

NumTilesX(w) == CeilDiv(w, tileSize)

NumTilesY(h) == CeilDiv(h, tileSize)

(***************************************************************************)
(* GPUTileBinner.binSplats, the device queue and the count and fill passes *)
(***************************************************************************)
BinNtx == NumTilesX(screenWidth)

BinNty == NumTilesY(screenHeight)

BinNumTiles == BinNtx * BinNty

ZeroCounts(n) == [t \in 0..(n - 1) |-> 0]

\* a buffer sized with two bytes per index
HalvedIndicesLength(total) == Max(4, total * 2) \div 4

\* Math.max(4, totalIndices * 4) bytes
TileIndicesLength(total) == Max(4, total * 4) \div 4

\* a buffer field that is still null (every created buffer has at least one element)
NullBuffer == <<>>

BinInit ==
  /\ numSplats \in 0..MaxBinSplats
  /\ screenWidth = 0
  /\ screenHeight = 0
  /\ projectedSplats = <<>>
  /\ sortedIndicesBuffer = <<>>
  /\ tileCountsBuffer = <<>>
  /\ tileOffsetsBuffer = <<>>
  /\ tileCurrentOffsetsBuffer = <<>>
  /\ tileIndicesBuffer = NullBuffer
  /\ currentNumTiles = 0
  /\ currentTotalIndices = 0
  /\ totalIndices = 0
  /\ commandEncoder2 = <<>>
  /\ binPc = "idle"
  /\ binFrame = 0
  /\ queue = <<>>
  /\ devOp = "none"
  /\ threadPos = <<>>
  /\ executed = {}
  /\ fillLog = {}

\* a counts buffer that is recreated only when the number of tiles changed
ReuseCounts(n) ==
  IF DOMAIN tileCountsBuffer = 0..(n - 1) THEN tileCountsBuffer ELSE ZeroCounts(n)

\* ensureBuffers(numTiles): the counts buffer is recreated (zero-filled) every frame,
\* the offsets buffers only when the number of tiles changed
EnsureCounts(n) == ZeroCounts(n)

EnsureOffsets(old, n) == IF currentNumTiles # n THEN ZeroCounts(n) ELSE old

\* binSplats up to the first await: ensureBuffers, record and submit the count pass,
\* submit the copy of the counts to the readback buffer.  A frame starts once the
\* device has drained the previous one and the reference binner has seen it.
BinSubmitCount ==
  /\ binPc \in {"idle", "returned", "threw"}
  /\ tbRan
  /\ queue = <<>>
  /\ devOp = "none"
  /\ binFrame < MaxBinFrames
  /\ binFrame' = binFrame + 1
  /\ \E scr \in Screens :
       /\ screenWidth' = scr[1]
       /\ screenHeight' = scr[2]
       /\ LET n == NumTilesX(scr[1]) * NumTilesY(scr[2])
          IN  /\ tileCountsBuffer' = EnsureCounts(n)
              /\ tileOffsetsBuffer' = EnsureOffsets(tileOffsetsBuffer, n)
              /\ tileCurrentOffsetsBuffer' = EnsureOffsets(tileCurrentOffsetsBuffer, n)
              /\ currentNumTiles' = n
  /\ \E proj \in [0..(numSplats - 1) -> ProjectedDomain] :
       /\ projectedSplats' = proj
       /\ sortedIndicesBuffer' \in FarToNear(proj, numSplats)
  /\ queue' = <<"count", "readCounts">>
  /\ commandEncoder2' = <<>>
  /\ executed' = {}
  /\ fillLog' = {}
  /\ binPc' = "awaitCounts"
  /\ tbRan' = FALSE
  /\ UNCHANGED <<tbNumTilesX, tbNumTilesY, tbNumTiles, tileCounts, tileOffsets,
                 totalSplatCount, indices, splatIndicesBuffer>>
  /\ UNCHANGED <<numSplats, tileIndicesBuffer, currentTotalIndices, totalIndices,
                 devOp, threadPos>>
  /\ UNCHANGED <<sortVars, scanVars, projVars, keyVars, rastVars, imgVars, ptVars,
                 pmVars, bsVars, frVars, scVars, perfVars>>

\* the factor of the sanity check, scaled down from 50
MaxReasonableFactor == 3

\* totalIndices > maxReasonableIndices, with maxReasonableIndices = numSplats * 50:
\* the branch calls console.error and falls through
ExceedsReasonable(total, n) == total > n * MaxReasonableFactor

\* after mapAsync: totalIndices = counts.reduce(...); reallocate the index buffer
\* when the total differs from the last allocation
AllocateIndices(old, total) ==
  IF currentTotalIndices # total THEN ZeroCounts(TileIndicesLength(total)) ELSE old

BinReadTotal ==
  /\ binPc = "awaitCounts"
  /\ "readCounts" \in executed
  /\ LET total == SumTo(tileCountsBuffer, BinNumTiles)
     IN  /\ totalIndices' = total
         /\ tileIndicesBuffer' = AllocateIndices(tileIndicesBuffer, total)
         /\ currentTotalIndices' = total
  /\ binPc' = "scan"
  /\ UNCHANGED <<numSplats, screenWidth, screenHeight, projectedSplats,
                 sortedIndicesBuffer, tileCountsBuffer, tileOffsetsBuffer,
                 tileCurrentOffsetsBuffer, currentNumTiles, commandEncoder2, binFrame,
                 queue, devOp, threadPos, executed, fillLog>>
  /\ UNCHANGED <<sortVars, scanVars, tbVars, projVars, keyVars, rastVars, imgVars, ptVars,
                 pmVars, bsVars, frVars, scVars, perfVars>>

\* scan(commandEncoder2, ...) with numTiles <= maxSinglePassElements: the dispatch
\* is recorded into commandEncoder2, which binSplats neither finishes nor submits
BinScanSinglePass ==
  /\ binPc = "scan"
  /\ BinNumTiles <= maxSinglePassElements
  /\ commandEncoder2' = Append(commandEncoder2, "scan")
  /\ binPc' = "scanned"
  /\ UNCHANGED <<numSplats, screenWidth, screenHeight, projectedSplats,
                 sortedIndicesBuffer, tileCountsBuffer, tileOffsetsBuffer,
                 tileCurrentOffsetsBuffer, tileIndicesBuffer, currentNumTiles,
                 currentTotalIndices, totalIndices, binFrame, queue, devOp, threadPos,
                 executed, fillLog>>
  /\ UNCHANGED <<sortVars, scanVars, tbVars, projVars, keyVars, rastVars, imgVars, ptVars,
                 pmVars, bsVars, frVars, scVars, perfVars>>

\* scan() with numTiles > maxSinglePassElements: scanCPU submits a copy of the counts
BinScanCPURead ==
  /\ binPc = "scan"
  /\ BinNumTiles > maxSinglePassElements
  /\ queue' = Append(queue, "readScanInput")
  /\ binPc' = "awaitScanInput"
  /\ UNCHANGED <<numSplats, screenWidth, screenHeight, projectedSplats,
                 sortedIndicesBuffer, tileCountsBuffer, tileOffsetsBuffer,
                 tileCurrentOffsetsBuffer, tileIndicesBuffer, currentNumTiles,
                 currentTotalIndices, totalIndices, commandEncoder2, binFrame, devOp,
                 threadPos, executed, fillLog>>
  /\ UNCHANGED <<sortVars, scanVars, tbVars, projVars, keyVars, rastVars, imgVars, ptVars,
                 pmVars, bsVars, frVars, scVars, perfVars>>

\* scanCPU after mapAsync: the CPU loop, then queue.writeBuffer(outputBuffer, ...)
BinScanCPUWrite ==
  /\ binPc = "awaitScanInput"
  /\ "readScanInput" \in executed
  /\ tileOffsetsBuffer' =
       ScanCPULoop(tileCountsBuffer, BinNumTiles, 0, 0, ZeroCounts(BinNumTiles))
  /\ executed' = executed \cup {"scan"}
  /\ binPc' = "scanned"
  /\ UNCHANGED <<numSplats, screenWidth, screenHeight, projectedSplats,
                 sortedIndicesBuffer, tileCountsBuffer, tileCurrentOffsetsBuffer,
                 tileIndicesBuffer, currentNumTiles, currentTotalIndices, totalIndices,
                 commandEncoder2, binFrame, queue, devOp, threadPos, fillLog>>
  /\ UNCHANGED <<sortVars, scanVars, tbVars, projVars, keyVars, rastVars, imgVars, ptVars,
                 pmVars, bsVars, frVars, scVars, perfVars>>

\* submit the copy of offsets into current offsets, then record and submit the fill
BinSubmitFill ==
  /\ binPc = "scanned"
  /\ tileIndicesBuffer # NullBuffer
  /\ queue' = queue \o <<"copyOffsets", "fill">>
  /\ binPc' = "returned"
  /\ UNCHANGED <<numSplats, screenWidth, screenHeight, projectedSplats,
                 sortedIndicesBuffer, tileCountsBuffer, tileOffsetsBuffer,
                 tileCurrentOffsetsBuffer, tileIndicesBuffer, currentNumTiles,
                 currentTotalIndices, totalIndices, commandEncoder2, binFrame, devOp,
                 threadPos, executed, fillLog>>
  /\ UNCHANGED <<sortVars, scanVars, tbVars, projVars, keyVars, rastVars, imgVars, ptVars,
                 pmVars, bsVars, frVars, scVars, perfVars>>

\* the same with tileIndicesBuffer still null: the copy is submitted, then
\* createBindGroup throws on the null buffer and the fill is never submitted
BinFillThrows ==
  /\ binPc = "scanned"
  /\ tileIndicesBuffer = NullBuffer
  /\ queue' = Append(queue, "copyOffsets")
  /\ binPc' = "threw"
  /\ UNCHANGED <<numSplats, screenWidth, screenHeight, projectedSplats,
                 sortedIndicesBuffer, tileCountsBuffer, tileOffsetsBuffer,
                 tileCurrentOffsetsBuffer, tileIndicesBuffer, currentNumTiles,
                 currentTotalIndices, totalIndices, commandEncoder2, binFrame, devOp,
                 threadPos, executed, fillLog>>
  /\ UNCHANGED <<sortVars, scanVars, tbVars, projVars, keyVars, rastVars, imgVars, ptVars,
                 pmVars, bsVars, frVars, scVars, perfVars>>

\* the tiles thread s of a count or fill dispatch visits, in order
ThreadTiles(s) ==
  GpuTileList(projectedSplats[sortedIndicesBuffer[s]], BinNtx, BinNty)

\* the device takes the next submitted command; copies run at once
DevStart ==
  /\ devOp = "none"
  /\ queue # <<>>
  /\ queue' = Tail(queue)
  /\ LET op == Head(queue)
     IN  IF op \in {"count", "fill"}
           THEN /\ devOp' = op
                /\ threadPos' = [s \in 0..(numSplats - 1) |-> 1]
                /\ UNCHANGED <<executed, tileCurrentOffsetsBuffer>>
           ELSE /\ devOp' = "none"
                /\ executed' = executed \cup {op}
                /\ tileCurrentOffsetsBuffer' =
                     IF op = "copyOffsets" THEN tileOffsetsBuffer
                                           ELSE tileCurrentOffsetsBuffer
                /\ UNCHANGED threadPos
  /\ UNCHANGED <<numSplats, screenWidth, screenHeight, projectedSplats,
                 sortedIndicesBuffer, tileCountsBuffer, tileOffsetsBuffer,
                 tileIndicesBuffer, currentNumTiles, currentTotalIndices, totalIndices,
                 commandEncoder2, binPc, binFrame, fillLog>>
  /\ UNCHANGED <<sortVars, scanVars, tbVars, projVars, keyVars, rastVars, imgVars, ptVars,
                 pmVars, bsVars, frVars, scVars, perfVars>>

\* count-tile-hits.wgsl: one atomicAdd(&tileCounts.counts[tileIdx], 1u) of thread s
DevCountStep ==
  /\ devOp = "count"
  /\ \E s \in 0..(numSplats - 1) :
       /\ threadPos[s] <= Len(ThreadTiles(s))
       /\ LET t == ThreadTiles(s)[threadPos[s]]
          IN  tileCountsBuffer' = [tileCountsBuffer EXCEPT ![t] = @ + 1]
       /\ threadPos' = [threadPos EXCEPT ![s] = @ + 1]
  /\ UNCHANGED <<numSplats, screenWidth, screenHeight, projectedSplats,
                 sortedIndicesBuffer, tileOffsetsBuffer, tileCurrentOffsetsBuffer,
                 tileIndicesBuffer, currentNumTiles, currentTotalIndices, totalIndices,
                 commandEncoder2, binPc, binFrame, queue, devOp, executed, fillLog>>
  /\ UNCHANGED <<sortVars, scanVars, tbVars, projVars, keyVars, rastVars, imgVars, ptVars,
                 pmVars, bsVars, frVars, scVars, perfVars>>

\* a store to indices[writePos]: in bounds it lands there; out of bounds it is
\* discarded (-1) or lands on any element of the buffer
StoreTargets(buffer, writePos) ==
  IF writePos \in DOMAIN buffer THEN {writePos} ELSE DOMAIN buffer \cup {-1}

\* fill-tile-lists.wgsl: writePos = atomicAdd(&tileCurrentOffsets.offsets[tileIdx], 1u);
\* tileIndices.indices[writePos] = splatIdx, for one tile of thread s
DevFillStep ==
  /\ devOp = "fill"
  /\ \E s \in 0..(numSplats - 1) :
       /\ threadPos[s] <= Len(ThreadTiles(s))
       /\ LET t == ThreadTiles(s)[threadPos[s]]
              writePos == tileCurrentOffsetsBuffer[t]
          IN  /\ tileCurrentOffsetsBuffer' = [tileCurrentOffsetsBuffer EXCEPT ![t] = @ + 1]
              /\ \E target \in StoreTargets(tileIndicesBuffer, writePos) :
                   /\ tileIndicesBuffer' =
                        IF target = -1 THEN tileIndicesBuffer
                        ELSE [tileIndicesBuffer EXCEPT ![target] = sortedIndicesBuffer[s]]
                   /\ fillLog' = fillLog \cup
                        {[thread |-> s, tile |-> t, splat |-> sortedIndicesBuffer[s],
                          pos |-> target]}
       /\ threadPos' = [threadPos EXCEPT ![s] = @ + 1]
  /\ UNCHANGED <<numSplats, screenWidth, screenHeight, projectedSplats,
                 sortedIndicesBuffer, tileCountsBuffer, tileOffsetsBuffer,
                 currentNumTiles, currentTotalIndices, totalIndices, commandEncoder2,
                 binPc, binFrame, queue, devOp, executed>>
  /\ UNCHANGED <<sortVars, scanVars, tbVars, projVars, keyVars, rastVars, imgVars, ptVars,
                 pmVars, bsVars, frVars, scVars, perfVars>>

\* every thread of the running dispatch has returned
DevFinish ==
  /\ devOp \in {"count", "fill"}
  /\ \A s \in 0..(numSplats - 1) : threadPos[s] > Len(ThreadTiles(s))
  /\ executed' = executed \cup {devOp}
  /\ devOp' = "none"
  /\ UNCHANGED <<numSplats, screenWidth, screenHeight, projectedSplats,
                 sortedIndicesBuffer, tileCountsBuffer, tileOffsetsBuffer,
                 tileCurrentOffsetsBuffer, tileIndicesBuffer, currentNumTiles,
                 currentTotalIndices, totalIndices, commandEncoder2, binPc, binFrame,
                 queue, threadPos, fillLog>>
  /\ UNCHANGED <<sortVars, scanVars, tbVars, projVars, keyVars, rastVars, imgVars, ptVars,
                 pmVars, bsVars, frVars, scVars, perfVars>>

BinNext ==
  \/ BinSubmitCount
  \/ BinReadTotal
  \/ BinScanSinglePass
  \/ BinScanCPURead
  \/ BinScanCPUWrite
  \/ BinSubmitFill
  \/ BinFillThrows
  \/ DevStart
  \/ DevCountStep
  \/ DevFillStep
  \/ DevFinish

(***************************************************************************)
(* TileBinner.binSorted: the CPU binner run on the same frame inputs       *)
(***************************************************************************)
TbInit ==
  /\ tbNumTilesX = 0
  /\ tbNumTilesY = 0
  /\ tbNumTiles = 0
  /\ tileCounts = <<>>
  /\ tileOffsets = <<>>
  /\ totalSplatCount = 0
  /\ indices = <<>>
  /\ splatIndicesBuffer = NullBuffer
  /\ tbRan = TRUE

\* the (splat, tile) pairs the two loops over sortedIndices visit, in order
RECURSIVE TbHits(_, _, _, _)

TbHits(s, n, ntx, nty) ==
  IF s >= n THEN <<>>
  ELSE LET splatIdx == sortedIndicesBuffer[s]
           tiles == CpuTileList(projectedSplats[splatIdx], screenWidth, screenHeight,
                                ntx, nty)
       IN  [k \in 1..Len(tiles) |-> <<splatIdx, tiles[k]>>] \o TbHits(s + 1, n, ntx, nty)

\* first pass: this.tileCounts[tileIdx]++ for every hit
RECURSIVE TbCount(_, _, _)

TbCount(hits, k, counts) ==
  IF k > Len(hits) THEN counts
  ELSE TbCount(hits, k + 1, [counts EXCEPT ![hits[k][2]] = @ + 1])

\* the prefix-sum loop over tileCounts
TbPrefixSum(counts, n) == ScanCPULoop(counts, n, 0, 0, ZeroCounts(n))

\* second pass: indices[currentPos[tileIdx]++] = splatIdx for every hit
RECURSIVE TbFill(_, _, _, _)

TbFill(hits, k, currentPos, out) ==
  IF k > Len(hits) THEN out
  ELSE LET t == hits[k][2]
           pos == currentPos[t]
       IN  TbFill(hits, k + 1, [currentPos EXCEPT ![t] = @ + 1],
                  IF pos \in DOMAIN out THEN [out EXCEPT ![pos] = hits[k][1]] ELSE out)

\* createBuffer(Math.max(total * 4, 4)) followed by writeBuffer(buffer, 0, indices)
TbUpload(data, total) ==
  [i \in 0..(Max(total * 4, 4) \div 4 - 1) |-> IF i < total THEN data[i] ELSE 0]

\* binSorted(sortedIndices, projectedBuffer, screenWidth, screenHeight)
TbBinSorted ==
  /\ ~tbRan
  /\ binPc \in {"returned", "threw"}
  /\ queue = <<>>
  /\ devOp = "none"
  /\ LET newX == NumTilesX(screenWidth)
         newY == NumTilesY(screenHeight)
         same == newX * newY = tbNumTiles
         ntx == IF same THEN tbNumTilesX ELSE newX
         nty == IF same THEN tbNumTilesY ELSE newY
         nt == newX * newY
         hits == TbHits(0, numSplats, ntx, nty)
         counts == TbCount(hits, 1, ZeroCounts(nt))
         offsets == TbPrefixSum(counts, nt)
         total == SumTo(counts, nt)
         filled == TbFill(hits, 1, offsets, ZeroCounts(total))
     IN  /\ tbNumTilesX' = ntx
         /\ tbNumTilesY' = nty
         /\ tbNumTiles' = nt
         /\ tileCounts' = counts
         /\ tileOffsets' = offsets
         /\ totalSplatCount' = total
         /\ indices' = filled
         /\ splatIndicesBuffer' = TbUpload(filled, total)
  /\ tbRan' = TRUE
  /\ UNCHANGED <<sortVars, scanVars, binVars, projVars, keyVars, rastVars, imgVars, ptVars,
                 pmVars, bsVars, frVars, scVars, perfVars>>

(***************************************************************************)
(* SplatProjector followed by the count and fill passes                    *)
(***************************************************************************)
\* bound of the projector model
MaxProjSplats == 2

\* the projector's viewport: two tiles by two tiles
ProjScreenWidth == 2 * tileSize

ProjScreenHeight == 2 * tileSize

\* Scene splats [x, y, z, radius] seen by a camera at the origin looking down -z
\* with a 90 degree field of view, so clip = (x, y, ., w) with w = -z.  The points
\* are chosen so that every quotient and distance below is a whole number and
\* no w is zero; z > 0 puts the centre behind the camera.
WorldDomain ==
  {[x |-> 0, y |-> 0, z |-> z, radius |-> 1] : z \in {-2, 2}}
    \cup {[x |-> x, y |-> 0, z |-> z, radius |-> 2] : x \in {-3, 0, 3}, z \in {-4, 4}}

Abs(a) == IF a >= 0 THEN a ELSE -a

\* a / b for b # 0 when b divides a
Quot(a, b) == IF b > 0 THEN a \div b ELSE (-a) \div (-b)

\* uniforms.viewProjectionMatrix * vec4f(pos, 1.0)
ClipPos(pos) == [x |-> pos.x, y |-> pos.y, w |-> -pos.z]

\* ndc = clip.xyz / clip.w, then ((ndc.x + 1) * 0.5 * width, (1 - ndc.y) * 0.5 * height)
ScreenPos(pos) ==
  LET clip == ClipPos(pos)
  IN  [x |-> Quot((clip.x + clip.w) * ProjScreenWidth, 2 * clip.w),
       y |-> Quot((clip.w - clip.y) * ProjScreenHeight, 2 * clip.w)]

\* distance(a, b) of two screen points that differ in one coordinate
ScreenDistance(a, b) == Abs(a.x - b.x) + Abs(a.y - b.y)

\* distance(worldPos, cameraPosition) with the camera at the origin
WorldDistance(pos) ==
  CHOOSE d \in 0..(Abs(pos.x) + Abs(pos.y) + Abs(pos.z)) :
    d * d = pos.x * pos.x + pos.y * pos.y + pos.z * pos.z

\* the six offset points the shader projects to estimate the screen radius
RadiusOffsets(w) ==
  {[w EXCEPT !.x = @ + w.radius], [w EXCEPT !.x = @ - w.radius],
   [w EXCEPT !.y = @ + w.radius], [w EXCEPT !.y = @ - w.radius],
   [w EXCEPT !.z = @ + w.radius], [w EXCEPT !.z = @ - w.radius]}

MaxScreenRadius(w) ==
  LET dists == {ScreenDistance(ScreenPos(w), ScreenPos(o)) : o \in RadiusOffsets(w)}
  IN  CHOOSE m \in dists : \A d \in dists : d <= m

\* the projector's main(): no branch on the sign of clipPos.w
Project(w) ==
  LET centre == ScreenPos(w)
      paddedRadius == (MaxScreenRadius(w) * 3) \div 2
  IN  [minX |-> centre.x - paddedRadius, minY |-> centre.y - paddedRadius,
       maxX |-> centre.x + paddedRadius, maxY |-> centre.y + paddedRadius,
       depth |-> WorldDistance(w)]

ProjInit ==
  /\ worldSplats \in UNION {[0..(n - 1) -> WorldDomain] : n \in 1..MaxProjSplats}
  /\ pjProjected = <<>>
  /\ pjTileCounts = ZeroCounts(NumTilesX(ProjScreenWidth) * NumTilesY(ProjScreenHeight))
  /\ pjPc = "idle"
  /\ pjThreadPos = <<>>
  /\ pjCountLog = {}
  /\ pjFillLog = {}

PjNumSplats == Cardinality(DOMAIN worldSplats)

\* the projector dispatch: every thread writes its own projectedSplats entry
ProjProject ==
  /\ pjPc = "idle"
  /\ pjProjected' = [i \in DOMAIN worldSplats |-> Project(worldSplats[i])]
  /\ pjThreadPos' = [i \in DOMAIN worldSplats |-> 1]
  /\ pjPc' = "count"
  /\ UNCHANGED <<worldSplats, pjTileCounts, pjCountLog, pjFillLog>>
  /\ UNCHANGED <<sortVars, scanVars, binVars, tbVars, keyVars, rastVars, imgVars, ptVars,
                 pmVars, bsVars, frVars, scVars, perfVars>>

PjThreadTiles(i) ==
  GpuTileList(pjProjected[i], NumTilesX(ProjScreenWidth), NumTilesY(ProjScreenHeight))

\* count-tile-hits.wgsl: one atomicAdd of the thread of splat i
ProjCountStep ==
  /\ pjPc = "count"
  /\ \E i \in DOMAIN worldSplats :
       /\ pjThreadPos[i] <= Len(PjThreadTiles(i))
       /\ LET t == PjThreadTiles(i)[pjThreadPos[i]]
          IN  /\ pjTileCounts' = [pjTileCounts EXCEPT ![t] = @ + 1]
              /\ pjCountLog' = pjCountLog \cup {<<i, t>>}
       /\ pjThreadPos' = [pjThreadPos EXCEPT ![i] = @ + 1]
  /\ UNCHANGED <<worldSplats, pjProjected, pjPc, pjFillLog>>
  /\ UNCHANGED <<sortVars, scanVars, binVars, tbVars, keyVars, rastVars, imgVars, ptVars,
                 pmVars, bsVars, frVars, scVars, perfVars>>

\* the count dispatch has completed; the fill dispatch starts
ProjCountDone ==
  /\ pjPc = "count"
  /\ \A i \in DOMAIN worldSplats : pjThreadPos[i] > Len(PjThreadTiles(i))
  /\ pjThreadPos' = [i \in DOMAIN worldSplats |-> 1]
  /\ pjPc' = "fill"
  /\ UNCHANGED <<worldSplats, pjProjected, pjTileCounts, pjCountLog, pjFillLog>>
  /\ UNCHANGED <<sortVars, scanVars, binVars, tbVars, keyVars, rastVars, imgVars, ptVars,
                 pmVars, bsVars, frVars, scVars, perfVars>>

\* fill-tile-lists.wgsl: the thread of splat i stores i into the list of one tile
ProjFillStep ==
  /\ pjPc = "fill"
  /\ \E i \in DOMAIN worldSplats :
       /\ pjThreadPos[i] <= Len(PjThreadTiles(i))
       /\ pjFillLog' = pjFillLog \cup {<<i, PjThreadTiles(i)[pjThreadPos[i]]>>}
       /\ pjThreadPos' = [pjThreadPos EXCEPT ![i] = @ + 1]
  /\ UNCHANGED <<worldSplats, pjProjected, pjTileCounts, pjPc, pjCountLog>>
  /\ UNCHANGED <<sortVars, scanVars, binVars, tbVars, keyVars, rastVars, imgVars, ptVars,
                 pmVars, bsVars, frVars, scVars, perfVars>>

ProjFillDone ==
  /\ pjPc = "fill"
  /\ \A i \in DOMAIN worldSplats : pjThreadPos[i] > Len(PjThreadTiles(i))
  /\ pjPc' = "done"
  /\ UNCHANGED <<worldSplats, pjProjected, pjTileCounts, pjThreadPos, pjCountLog,
                 pjFillLog>>
  /\ UNCHANGED <<sortVars, scanVars, binVars, tbVars, keyVars, rastVars, imgVars, ptVars,
                 pmVars, bsVars, frVars, scVars, perfVars>>

ProjNext ==
  \/ ProjProject
  \/ ProjCountStep
  \/ ProjCountDone
  \/ ProjFillStep
  \/ ProjFillDone

(***************************************************************************)
(* Depth key encoders (RadixSorter.sort, extract-depth-keys.wgsl)          *)
(***************************************************************************)
\* f32 bit patterns the encoders are applied to: +0 and -0, the smallest
\* denormals, 1.0 and -1.0, 2.5 and -2.5, the largest finite values, the
\* infinities, quiet and signalling NaNs of either sign
FloatBits ==
  {Word(0, 0, 0, 0), Word(128, 0, 0, 0), Word(0, 0, 0, 1), Word(128, 0, 0, 1),
   Word(63, 128, 0, 0), Word(191, 128, 0, 0), Word(64, 32, 0, 0), Word(192, 32, 0, 0),
   Word(127, 127, 255, 255), Word(255, 127, 255, 255),
   Word(127, 128, 0, 0), Word(255, 128, 0, 0),
   Word(127, 192, 0, 0), Word(255, 192, 0, 0), Word(127, 128, 0, 1),
   Word(255, 255, 255, 255)}

\* a ^ b on the low n bits
RECURSIVE XorBits(_, _, _)

XorBits(a, b, n) ==
  IF n = 0 THEN 0
  ELSE (((a % 2) + (b % 2)) % 2) + 2 * XorBits(a \div 2, b \div 2, n - 1)

XorWord(a, b) == [p \in 0..3 |-> XorBits(a[p], b[p], 8)]

\* extract-depth-keys.wgsl:
\*   mask = select(0x80000000u, 0xffffffffu, (floatBits >> 31u) == 1u)
\*   keys.values[index] = floatBits ^ mask
EncodeKeyGPU(floatBits) ==
  LET mask == IF SignBit(floatBits) = 1 THEN AllOnes ELSE Word(128, 0, 0, 0)
  IN  XorWord(floatBits, mask)

\* the depths of two splats handed to the encoders
KeyInit ==
  /\ encDepth \in [0..1 -> FloatBits]
  /\ cpuKeys = <<>>
  /\ gpuKeys = <<>>

\* RadixSorter.sort: keys[i] = floatBits ^ mask for every splat
KeyEncodeCPU ==
  /\ cpuKeys = <<>>
  /\ cpuKeys' = [i \in 0..1 |-> EncodeKeyCPU(encDepth[i])]
  /\ UNCHANGED <<encDepth, gpuKeys>>
  /\ UNCHANGED <<sortVars, scanVars, binVars, tbVars, projVars, rastVars, imgVars, ptVars,
                 pmVars, bsVars, frVars, scVars, perfVars>>

\* DepthKeyExtractor: one thread per splat writes its key
KeyExtractGPU ==
  /\ gpuKeys = <<>>
  /\ gpuKeys' = [i \in 0..1 |-> EncodeKeyGPU(encDepth[i])]
  /\ UNCHANGED <<encDepth, cpuKeys>>
  /\ UNCHANGED <<sortVars, scanVars, binVars, tbVars, projVars, rastVars, imgVars, ptVars,
                 pmVars, bsVars, frVars, scVars, perfVars>>

KeyNext ==
  \/ KeyEncodeCPU
  \/ KeyExtractGPU

(***************************************************************************)
(* Tile rasteriser (ComputeShaderRenderer compute shader), one pixel       *)
(***************************************************************************)
\* f32 colours, weights and alphas in fixed point: 1.0 is Unit
Unit == 8000

\* bound of the rasteriser model: the longest tile segment
MaxSegmentLen == 3

\* a * b in fixed point
Mul(a, b) == (a * b) \div Unit

\* colours of the splats: red, green
SplatColors == {<<Unit, 0, 0>>, <<0, Unit, 0>>}

\* a splat of the segment as evaluateSplat meets it at the pixel: colour and
\* opacity from splatProperties, the Gaussian weight at the pixel (0 stands for
\* a pixel outside the splat's screen bounds), the diffuse term
\* max(dot(normal, light), 0)
SegmentSplats ==
  [color : SplatColors, opacity : {Unit \div 2, Unit},
   gaussian : {0, Unit \div 2, Unit}, diffuse : {0, Unit}]

\* evaluateSplat: vec4f(0.0) outside the bounds, else
\* vec4f(color * (0.85 + 0.15 * diffuse), gaussian)
EvaluateSplat(s) ==
  IF s.gaussian = 0 THEN <<0, 0, 0, 0>>
  ELSE LET lit == (85 * Unit) \div 100 + Mul((15 * Unit) \div 100, s.diffuse)
       IN  <<Mul(s.color[1], lit), Mul(s.color[2], lit), Mul(s.color[3], lit),
             s.gaussian>>

\* color = color * (1.0 - splatAlpha) + splatContribution.rgb * splatAlpha
BlendColor(color, c) ==
  [k \in 1..3 |-> Mul(color[k], Unit - c[4]) + Mul(c[k], c[4])]

\* alpha = alpha * (1.0 - splatAlpha) + splatAlpha
BlendAlpha(alpha, c) == Mul(alpha, Unit - c[4]) + c[4]

\* the early-exit threshold 0.99
AlphaCutoff == (99 * Unit) \div 100

\* vec3f(0.05, 0.05, 0.1)
BackgroundColor == <<(5 * Unit) \div 100, (5 * Unit) \div 100, Unit \div 10>>

\* the accumulated colour stored without the background term
FinalColorUncomposited(color, alpha) == color

\* finalColor = color + backgroundColor * (1.0 - alpha)
FinalColor(color, alpha) ==
  [k \in 1..3 |-> color[k] + Mul(BackgroundColor[k], Unit - alpha)]

\* the loop of main over the whole segment from index i on, without the early exit
RECURSIVE BlendFrom(_, _, _, _)

BlendFrom(seg, i, color, alpha) ==
  IF i >= Len(seg) THEN FinalColor(color, alpha)
  ELSE LET c == EvaluateSplat(seg[i + 1])
       IN  BlendFrom(seg, i + 1, BlendColor(color, c), BlendAlpha(alpha, c))

\* main up to the loop: color = vec3f(0.0), alpha = 0.0, numSplats = the tile's count
RastStart ==
  /\ pxI = 0
  /\ pxColor = <<0, 0, 0>>
  /\ pxAlpha = 0
  /\ pxFinalColor = <<>>
  /\ pxPc = "loop"

\* the segment handed to the thread: any splats, in any order
RastInit ==
  /\ \E n \in 0..MaxSegmentLen : pxSegment \in [1..n -> SegmentSplats]
  /\ RastStart

\* one iteration of the loop: evaluate the splat, blend, break when alpha >= 0.99
RastVisit ==
  /\ pxPc = "loop"
  /\ pxI < Len(pxSegment)
  /\ LET c == EvaluateSplat(pxSegment[pxI + 1])
     IN  /\ pxColor' = BlendColor(pxColor, c)
         /\ pxAlpha' = BlendAlpha(pxAlpha, c)
         /\ pxPc' = IF BlendAlpha(pxAlpha, c) >= AlphaCutoff THEN "break" ELSE "loop"
  /\ pxI' = pxI + 1
  /\ UNCHANGED <<pxSegment, pxFinalColor>>
  /\ UNCHANGED <<sortVars, scanVars, binVars, tbVars, projVars, keyVars, imgVars, ptVars,
                 pmVars, bsVars, frVars, scVars, perfVars>>

\* after the loop: composite with the background and textureStore
RastStore ==
  /\ pxPc = "break" \/ (pxPc = "loop" /\ pxI >= Len(pxSegment))
  /\ pxFinalColor' = FinalColor(pxColor, pxAlpha)
  /\ pxPc' = "done"
  /\ UNCHANGED <<pxSegment, pxI, pxColor, pxAlpha>>
  /\ UNCHANGED <<sortVars, scanVars, binVars, tbVars, projVars, keyVars, imgVars, ptVars,
                 pmVars, bsVars, frVars, scVars, perfVars>>

RastNext ==
  \/ RastVisit
  \/ RastStore

(***************************************************************************)
(* Tile rasteriser, the pixel threads of one dispatch                      *)
(***************************************************************************)
\* two pixel threads of the dispatch
Pixels == {0, 1}

\* the splats a pixel's segment can hold: red or green, Gaussian weight 0.5 or 1
ImgSplats ==
  {s \in SegmentSplats : s.opacity = Unit /\ s.diffuse = Unit /\ s.gaussian # 0}

ImgSegments == UNION {[1..n -> ImgSplats] : n \in 0..(MaxSegmentLen - 1)}

\* one accumulator for all the threads
SharedAccumulator(p) == 0

\* var color, var alpha are function-scope variables: thread p has its own
Accumulator(p) == p

\* the value main stores for a segment: the loop with its early exit, then the
\* background composite
RECURSIVE WalkFrom(_, _, _, _)

WalkFrom(seg, i, color, alpha) ==
  IF i >= Len(seg) THEN FinalColor(color, alpha)
  ELSE LET c == EvaluateSplat(seg[i + 1])
           nc == BlendColor(color, c)
           na == BlendAlpha(alpha, c)
       IN  IF na >= AlphaCutoff THEN FinalColor(nc, na)
           ELSE WalkFrom(seg, i + 1, nc, na)

ImgStart ==
  /\ imgI = [p \in Pixels |-> 0]
  /\ imgColor = [p \in Pixels |-> <<0, 0, 0>>]
  /\ imgAlpha = [p \in Pixels |-> 0]
  /\ imgPc = [p \in Pixels |-> "loop"]
  /\ outputTexture = [p \in Pixels |-> <<>>]

\* the read-only inputs of the dispatch, as they evaluate at each pixel
ImgInit ==
  /\ imgSegments \in [Pixels -> ImgSegments]
  /\ ImgStart

\* one loop iteration of pixel thread p
ImgVisit ==
  \E p \in Pixels :
    /\ imgPc[p] = "loop"
    /\ imgI[p] < Len(imgSegments[p])
    /\ LET c == EvaluateSplat(imgSegments[p][imgI[p] + 1])
           a == Accumulator(p)
           na == BlendAlpha(imgAlpha[a], c)
       IN  /\ imgColor' = [imgColor EXCEPT ![a] = BlendColor(imgColor[a], c)]
           /\ imgAlpha' = [imgAlpha EXCEPT ![a] = na]
           /\ imgPc' = [imgPc EXCEPT ![p] = IF na >= AlphaCutoff THEN "break" ELSE "loop"]
    /\ imgI' = [imgI EXCEPT ![p] = @ + 1]
    /\ UNCHANGED <<imgSegments, outputTexture>>
    /\ UNCHANGED <<sortVars, scanVars, binVars, tbVars, projVars, keyVars, rastVars,
                   ptVars, pmVars, bsVars, frVars, scVars, perfVars>>

\* textureStore(outputTexture, pixelCoord, vec4f(finalColor, 1.0)) of thread p
ImgStore ==
  \E p \in Pixels :
    /\ imgPc[p] = "break" \/ (imgPc[p] = "loop" /\ imgI[p] >= Len(imgSegments[p]))
    /\ LET a == Accumulator(p)
       IN  outputTexture' =
             [outputTexture EXCEPT ![p] = FinalColor(imgColor[a], imgAlpha[a])]
    /\ imgPc' = [imgPc EXCEPT ![p] = "done"]
    /\ UNCHANGED <<imgSegments, imgI, imgColor, imgAlpha>>
    /\ UNCHANGED <<sortVars, scanVars, binVars, tbVars, projVars, keyVars, rastVars,
                   ptVars, pmVars, bsVars, frVars, scVars, perfVars>>

ImgNext ==
  \/ ImgVisit
  \/ ImgStore

(***************************************************************************)
(* PerTileSorter: the per-tile sort shader, one workgroup per tile         *)
(***************************************************************************)
\* params.maxSplatsPerTile and the workgroup size, scaled down from 256
PtMaxSplatsPerTile == 3

PtWorkgroupSize == 2

PtTiles == {0, 1}

PtSplats == {0, 1, 2}

PtThreads == 0..(PtWorkgroupSize - 1)

\* projectedSplats.splats[splatIdx].depth
PtDepthOf(splatIdx) == splatIdx + 1

\* the padding depth -1e10: below every depth
PtSentinelDepth == -1

\* a tile's list: distinct splats in any order, as the fill pass appended them
PtLists ==
  UNION {{q \in [1..n -> PtSplats] : \A a, b \in 1..n : a # b => q[a] # q[b]} :
           n \in 0..Min(PtMaxSplatsPerTile, Cardinality(PtSplats))}

\* the packed index buffer of two tile lists: createBuffer(max(total * 4, 4))
PtPacked(l0, l1) ==
  [i \in 0..(Max(Len(l0) + Len(l1), 1) - 1) |->
     IF i < Len(l0) THEN l0[i + 1]
     ELSE IF i < Len(l0) + Len(l1) THEN l1[i - Len(l0) + 1] ELSE 0]

PtIdleThreads == [tid \in PtThreads |-> [at |-> "idle", i |-> 0]]

PtStart ==
  /\ ptTile = -1
  /\ ptDone = {}
  /\ sharedIndices = <<>>
  /\ sharedDepths = <<>>
  /\ ptIteration = 0
  /\ ptThreadPc = PtIdleThreads
  /\ ptTemp = [tid \in PtThreads |-> [depth |-> 0, idx |-> 0]]

\* the inputs of sort(): tile counts, tile offsets and the filled index buffer
PtInit ==
  /\ \E l0, l1 \in PtLists :
       /\ ptCounts = (0 :> Len(l0) @@ 1 :> Len(l1))
       /\ ptOffsets = (0 :> 0 @@ 1 :> Len(l0))
       /\ ptIndices = PtPacked(l0, l1)
       /\ ptFilled = PtPacked(l0, l1)
  /\ PtStart

\* numSplats = min(count, params.maxSplatsPerTile)
PtNumSplats(t) == Min(ptCounts[t], PtMaxSplatsPerTile)

\* the first loop index of a thread and its stride
PtFirst(tid, limit, at) ==
  IF tid < limit THEN [at |-> at, i |-> tid] ELSE [at |-> "barrier", i |-> tid]

PtAdvance(pc, limit, at) ==
  IF pc.i + PtWorkgroupSize < limit THEN [at |-> at, i |-> pc.i + PtWorkgroupSize]
  ELSE [at |-> "barrier", i |-> pc.i]

\* a workgroup starts on tile t: the load loop of every thread, then the barrier
PtLoad ==
  /\ ptTile = -1
  /\ \E t \in PtTiles \ ptDone :
       /\ ptTile' = t
       /\ sharedIndices' =
            [i \in 0..(PtMaxSplatsPerTile - 1) |->
               IF i < PtNumSplats(t) THEN ptIndices[ptOffsets[t] + i] ELSE 0]
       /\ sharedDepths' =
            [i \in 0..(PtMaxSplatsPerTile - 1) |->
               IF i < PtNumSplats(t) THEN PtDepthOf(ptIndices[ptOffsets[t] + i])
               ELSE PtSentinelDepth]
  /\ ptIteration' = 0
  /\ ptThreadPc' = [tid \in PtThreads |-> PtFirst(tid, PtMaxSplatsPerTile - 1, "compare")]
  /\ UNCHANGED <<ptFilled, ptCounts, ptOffsets, ptIndices, ptDone, ptTemp>>
  /\ UNCHANGED <<sortVars, scanVars, binVars, tbVars, projVars, keyVars, rastVars,
                 imgVars, pmVars, bsVars, frVars, scVars, perfVars>>

\* if (sharedDepths[i] < sharedDepths[i + 1u]) of one thread
PtCompare ==
  /\ \E tid \in PtThreads :
       /\ ptThreadPc[tid].at = "compare"
       /\ LET i == ptThreadPc[tid].i
          IN  ptThreadPc' =
                [ptThreadPc EXCEPT ![tid] =
                   IF sharedDepths[i] < sharedDepths[i + 1] THEN [at |-> "d1", i |-> i]
                   ELSE PtAdvance(@, PtMaxSplatsPerTile - 1, "compare")]
  /\ UNCHANGED <<ptFilled, ptCounts, ptOffsets, ptIndices, ptTile, ptDone, sharedIndices,
                 sharedDepths, ptIteration, ptTemp>>
  /\ UNCHANGED <<sortVars, scanVars, binVars, tbVars, projVars, keyVars, rastVars,
                 imgVars, pmVars, bsVars, frVars, scVars, perfVars>>

\* one statement of the swap of one thread: tempDepth = sharedDepths[i];
\* sharedDepths[i] = sharedDepths[i + 1u]; sharedDepths[i + 1u] = tempDepth; then
\* the same three statements on sharedIndices
PtSwapStep ==
  /\ \E tid \in PtThreads :
       LET pc == ptThreadPc[tid]
           i == pc.i
       IN  /\ pc.at \in {"d1", "d2", "d3", "x1", "x2", "x3"}
           /\ ptTemp' =
                [ptTemp EXCEPT ![tid] =
                   CASE pc.at = "d1" -> [@ EXCEPT !.depth = sharedDepths[i]]
                     [] pc.at = "x1" -> [@ EXCEPT !.idx = sharedIndices[i]]
                     [] OTHER -> @]
           /\ sharedDepths' =
                CASE pc.at = "d2" -> [sharedDepths EXCEPT ![i] = sharedDepths[i + 1]]
                  [] pc.at = "d3" -> [sharedDepths EXCEPT ![i + 1] = ptTemp[tid].depth]
                  [] OTHER -> sharedDepths
           /\ sharedIndices' =
                CASE pc.at = "x2" -> [sharedIndices EXCEPT ![i] = sharedIndices[i + 1]]
                  [] pc.at = "x3" -> [sharedIndices EXCEPT ![i + 1] = ptTemp[tid].idx]
                  [] OTHER -> sharedIndices
           /\ ptThreadPc' =
                [ptThreadPc EXCEPT ![tid] =
                   CASE pc.at = "d1" -> [at |-> "d2", i |-> i]
                     [] pc.at = "d2" -> [at |-> "d3", i |-> i]
                     [] pc.at = "d3" -> [at |-> "x1", i |-> i]
                     [] pc.at = "x1" -> [at |-> "x2", i |-> i]
                     [] pc.at = "x2" -> [at |-> "x3", i |-> i]
                     [] OTHER -> PtAdvance(@, PtMaxSplatsPerTile - 1, "compare")]
  /\ UNCHANGED <<ptFilled, ptCounts, ptOffsets, ptIndices, ptTile, ptDone, ptIteration>>
  /\ UNCHANGED <<sortVars, scanVars, binVars, tbVars, projVars, keyVars, rastVars,
                 imgVars, pmVars, bsVars, frVars, scVars, perfVars>>

\* workgroupBarrier() at the end of an iteration: every thread has arrived; after
\* maxSplatsPerTile iterations the threads go on to the write-back loop
PtBarrier ==
  /\ ptTile # -1
  /\ \A tid \in PtThreads : ptThreadPc[tid].at = "barrier"
  /\ ptIteration < PtMaxSplatsPerTile
  /\ ptIteration' = ptIteration + 1
  /\ ptThreadPc' =
       IF ptIteration + 1 < PtMaxSplatsPerTile
         THEN [tid \in PtThreads |-> PtFirst(tid, PtMaxSplatsPerTile - 1, "compare")]
         ELSE [tid \in PtThreads |-> PtFirst(tid, PtMaxSplatsPerTile, "write")]
  /\ UNCHANGED <<ptFilled, ptCounts, ptOffsets, ptIndices, ptTile, ptDone, sharedIndices,
                 sharedDepths, ptTemp>>
  /\ UNCHANGED <<sortVars, scanVars, binVars, tbVars, projVars, keyVars, rastVars,
                 imgVars, pmVars, bsVars, frVars, scVars, perfVars>>

\* splatIndices.indices[tileOffset + i] = sharedIndices[i] of one thread, for every
\* i below maxSplatsPerTile
PtWriteBack ==
  /\ \E tid \in PtThreads :
       /\ ptThreadPc[tid].at = "write"
       /\ LET i == ptThreadPc[tid].i
          IN  \E target \in StoreTargets(ptIndices, ptOffsets[ptTile] + i) :
                ptIndices' = IF target = -1 THEN ptIndices
                             ELSE [ptIndices EXCEPT ![target] = sharedIndices[i]]
       /\ ptThreadPc' = [ptThreadPc EXCEPT ![tid] = PtAdvance(@, PtMaxSplatsPerTile, "write")]
  /\ UNCHANGED <<ptFilled, ptCounts, ptOffsets, ptTile, ptDone, sharedIndices, sharedDepths,
                 ptIteration, ptTemp>>
  /\ UNCHANGED <<sortVars, scanVars, binVars, tbVars, projVars, keyVars, rastVars,
                 imgVars, pmVars, bsVars, frVars, scVars, perfVars>>

\* every thread of the workgroup has returned
PtFinish ==
  /\ ptTile # -1
  /\ ptIteration = PtMaxSplatsPerTile
  /\ \A tid \in PtThreads : ptThreadPc[tid].at = "barrier"
  /\ ptDone' = ptDone \cup {ptTile}
  /\ ptTile' = -1
  /\ ptThreadPc' = PtIdleThreads
  /\ UNCHANGED <<ptFilled, ptCounts, ptOffsets, ptIndices, sharedIndices, sharedDepths,
                 ptIteration, ptTemp>>
  /\ UNCHANGED <<sortVars, scanVars, binVars, tbVars, projVars, keyVars, rastVars,
                 imgVars, pmVars, bsVars, frVars, scVars, perfVars>>

PtNext ==
  \/ PtLoad
  \/ PtCompare
  \/ PtSwapStep
  \/ PtBarrier
  \/ PtWriteBack
  \/ PtFinish

(***************************************************************************)
(* PointManager ping-pong buffers and the gradient descent of main.ts      *)
(***************************************************************************)
\* for (let i = 0; i < 5; i++) in fitSplatsToScene
GradientDescentIterations == 5

\* bound of the model: calls of fitSplatsToScene
MaxFitCalls == 4

\* what a position buffer holds: the operation that wrote it last
PmStamp(op, call, iter) == [op |-> op, call |-> call, iter |-> iter]

\* getCurrentPositionBuffer()
CurrentPositionBuffer(isA) == IF isA THEN "A" ELSE "B"

\* a next buffer that is the current buffer
AliasedPositionBuffer(isA) == IF isA THEN "A" ELSE "B"

\* getNextPositionBuffer()
NextPositionBuffer(isA) == IF isA THEN "B" ELSE "A"

PmNoRead == [buffer |-> "none", stamp |-> PmStamp("create", 0, 0)]

\* new PointManager(device, scene): both buffers created, currentBufferIsA = true
PmInit ==
  /\ currentBufferIsA = TRUE
  /\ positionBuffers = [b \in {"A", "B"} |-> PmStamp("create", 0, 0)]
  /\ fitPc = "idle"
  /\ fitI = 0
  /\ fitCall = 0
  /\ fitRead = PmNoRead
  /\ fitWrite = "none"

\* reinitialize(): writeBuffer(getCurrentPositionBuffer(), ...)
Reinitialized(buffers, isA, call) ==
  [buffers EXCEPT ![CurrentPositionBuffer(isA)] = PmStamp("reinitialize", call, 0)]

\* reinitialize() called from outside fitSplatsToScene
PmReinitialize ==
  /\ fitPc = "idle"
  /\ positionBuffers' = Reinitialized(positionBuffers, currentBufferIsA, fitCall)
  /\ UNCHANGED <<currentBufferIsA, fitPc, fitI, fitCall, fitRead, fitWrite>>
  /\ UNCHANGED <<sortVars, scanVars, binVars, tbVars, projVars, keyVars, rastVars,
                 imgVars, ptVars, bsVars, frVars, scVars, perfVars>>

\* swap() called from outside fitSplatsToScene
PmSwap ==
  /\ fitPc = "idle"
  /\ currentBufferIsA' = ~currentBufferIsA
  /\ UNCHANGED <<positionBuffers, fitPc, fitI, fitCall, fitRead, fitWrite>>
  /\ UNCHANGED <<sortVars, scanVars, binVars, tbVars, projVars, keyVars, rastVars,
                 imgVars, ptVars, bsVars, frVars, scVars, perfVars>>

\* fitSplatsToScene up to the loop: pointManager.reinitialize()
FitStart ==
  /\ fitPc = "idle"
  /\ fitCall < MaxFitCalls
  /\ fitCall' = fitCall + 1
  /\ positionBuffers' = Reinitialized(positionBuffers, currentBufferIsA, fitCall + 1)
  /\ fitI' = 0
  /\ fitRead' = PmNoRead
  /\ fitWrite' = "none"
  /\ fitPc' = "loop"
  /\ UNCHANGED currentBufferIsA
  /\ UNCHANGED <<sortVars, scanVars, binVars, tbVars, projVars, keyVars, rastVars,
                 imgVars, ptVars, bsVars, frVars, scVars, perfVars>>

\* one iteration of the loop: evaluateGradients and updatePositions read the current
\* buffer, updatePositions writes the next buffer, submit, pointManager.swap()
FitIterate ==
  /\ fitPc = "loop"
  /\ fitI < GradientDescentIterations
  /\ LET current == CurrentPositionBuffer(currentBufferIsA)
         next == NextPositionBuffer(currentBufferIsA)
     IN  /\ fitRead' = [buffer |-> current, stamp |-> positionBuffers[current]]
         /\ fitWrite' = next
         /\ positionBuffers' = [positionBuffers EXCEPT ![next] = PmStamp("update", fitCall, fitI)]
  /\ currentBufferIsA' = ~currentBufferIsA
  /\ fitI' = fitI + 1
  /\ UNCHANGED <<fitPc, fitCall>>
  /\ UNCHANGED <<sortVars, scanVars, binVars, tbVars, projVars, keyVars, rastVars,
                 imgVars, ptVars, bsVars, frVars, scVars, perfVars>>

\* the loop is over: the curvature pass reads the current buffer
FitFinish ==
  /\ fitPc = "loop"
  /\ fitI = GradientDescentIterations
  /\ fitPc' = "idle"
  /\ UNCHANGED <<currentBufferIsA, positionBuffers, fitI, fitCall, fitRead, fitWrite>>
  /\ UNCHANGED <<sortVars, scanVars, binVars, tbVars, projVars, keyVars, rastVars,
                 imgVars, ptVars, bsVars, frVars, scVars, perfVars>>

PmNext ==
  \/ PmReinitialize
  \/ PmSwap
  \/ FitStart
  \/ FitIterate
  \/ FitFinish

(***************************************************************************)
(* BitonicSorter: the recorded compare-exchange passes and their execution *)
(***************************************************************************)
\* bound of the model: log2 of the largest padded size
MaxBsLog2 == 2

\* largest depth value of the model
MaxBsDepth == 2

\* the halvings of j below 1 that still give a positive double before j /= 2
\* reaches 0, scaled down from 1074
BsSubUnitHalvings == 2

\* a & b on the low n bits
RECURSIVE AndBits(_, _, _)

AndBits(a, b, n) ==
  IF n = 0 THEN 0
  ELSE ((a % 2) * (b % 2)) + 2 * AndBits(a \div 2, b \div 2, n - 1)

BsBits == MaxBsLog2 + 2

\* new Uint32Array([j, k]): the loop variable j = 2^e converted to u32
BsUint32(e) == IF e >= 0 THEN Pow2(e) ELSE 0

\* the exponent of k / 2
BsHalfExp(k) == CHOOSE e \in 0..(MaxBsLog2 + 1) : Pow2(e + 1) = k

\* thread i of a pass with parameters j, k exchanges elements i and i ^ j
BsSwaps(depths, i, j, k) ==
  LET partner == XorBits(i, j, BsBits)
  IN  /\ partner > i
      /\ \/ AndBits(i, k, BsBits) = 0 /\ depths[i] > depths[partner]
         \/ AndBits(i, k, BsBits) # 0 /\ depths[i] < depths[partner]

\* one dispatch of the shader over a buffer (the decision is taken on the depths)
BsPass(depths, buffer, j, k) ==
  [p \in DOMAIN buffer |->
     LET q == XorBits(p, j, BsBits)
     IN  IF BsSwaps(depths, Min(p, q), j, k) THEN buffer[q] ELSE buffer[p]]

\* the parameters a dispatch sees when it executes: the contents of the uniform
\* buffer at that time
BsParamsSeen(recorded, uniform) == uniform

\* new BitonicSorter(device, numElements), and the depth and index buffers of the
\* caller: paddedSize elements, the indices 0, 1, 2, ...
BsInit ==
  /\ \E n \in 1..MaxBsLog2 : bsInput \in [0..(Pow2(n) - 1) -> 0..MaxBsDepth]
  /\ bsDepths = bsInput
  /\ bsIndices = [i \in DOMAIN bsInput |-> i]
  /\ bsUniform = <<0, 0>>
  /\ bsK = 2
  /\ bsJExp = 0
  /\ bsRecorded = <<>>
  /\ bsExecuted = 0
  /\ bsPc = "record"

BsPaddedSize == Cardinality(DOMAIN bsInput)

\* one iteration of the inner loop of sort(): queue.writeBuffer(uniformBuffer, [j, k])
\* takes effect at once, the compute pass is recorded into the caller's encoder;
\* then j /= 2, and k *= 2 with j = k / 2 when j has reached 0
BsRecordPass ==
  /\ bsPc = "record"
  /\ bsK <= BsPaddedSize
  /\ bsUniform' = <<BsUint32(bsJExp), bsK>>
  /\ bsRecorded' = Append(bsRecorded, <<BsUint32(bsJExp), bsK>>)
  /\ IF bsJExp > -BsSubUnitHalvings
       THEN bsJExp' = bsJExp - 1 /\ bsK' = bsK
       ELSE bsK' = bsK * 2 /\ bsJExp' = BsHalfExp(bsK * 2)
  /\ UNCHANGED <<bsInput, bsDepths, bsIndices, bsExecuted, bsPc>>
  /\ UNCHANGED <<sortVars, scanVars, binVars, tbVars, projVars, keyVars, rastVars,
                 imgVars, ptVars, pmVars, frVars, scVars, perfVars>>

\* sort() returns and the caller submits the encoder
BsSubmit ==
  /\ bsPc = "record"
  /\ bsK > BsPaddedSize
  /\ bsPc' = "device"
  /\ UNCHANGED <<bsInput, bsDepths, bsIndices, bsUniform, bsK, bsJExp, bsRecorded,
                 bsExecuted>>
  /\ UNCHANGED <<sortVars, scanVars, binVars, tbVars, projVars, keyVars, rastVars,
                 imgVars, ptVars, pmVars, frVars, scVars, perfVars>>

\* the device executes the next recorded pass: every thread i below arraySize
BsExecutePass ==
  /\ bsPc = "device"
  /\ bsExecuted < Len(bsRecorded)
  /\ LET params == BsParamsSeen(bsRecorded[bsExecuted + 1], bsUniform)
     IN  /\ bsDepths' = BsPass(bsDepths, bsDepths, params[1], params[2])
         /\ bsIndices' = BsPass(bsDepths, bsIndices, params[1], params[2])
  /\ bsExecuted' = bsExecuted + 1
  /\ UNCHANGED <<bsInput, bsUniform, bsK, bsJExp, bsRecorded, bsPc>>
  /\ UNCHANGED <<sortVars, scanVars, binVars, tbVars, projVars, keyVars, rastVars,
                 imgVars, ptVars, pmVars, frVars, scVars, perfVars>>

BsNext ==
  \/ BsRecordPass
  \/ BsSubmit
  \/ BsExecutePass

BsIdle ==
  /\ bsInput = <<>>
  /\ bsDepths = <<>>
  /\ bsIndices = <<>>
  /\ bsUniform = <<0, 0>>
  /\ bsK = 2
  /\ bsJExp = 0
  /\ bsRecorded = <<>>
  /\ bsExecuted = 0
  /\ bsPc = "record"

(***************************************************************************)
(* main.ts: render() and the resize handler                                *)
(***************************************************************************)
\* bound of the model: frames rendered
MaxFrFrames == 2

\* a stage that has not run in this frame
FrNotRun == <<0, 0>>

\* resizeCanvas() called once at start-up; no frame is running
FrInit ==
  /\ canvasSize \in Screens
  /\ frPc = "idle"
  /\ frUniformSize = FrNotRun
  /\ frBinSize = FrNotRun
  /\ frRenderSize = FrNotRun
  /\ frFrame = 0

\* the resize event: resizeCanvas() sets canvas.width and canvas.height; it runs
\* whenever no script is running, also while render() is suspended at an await
FrResize ==
  /\ \E scr \in Screens \ {canvasSize} : canvasSize' = scr
  /\ UNCHANGED <<frPc, frUniformSize, frBinSize, frRenderSize, frFrame>>
  /\ UNCHANGED <<sortVars, scanVars, binVars, tbVars, projVars, keyVars, rastVars,
                 imgVars, ptVars, pmVars, bsVars, scVars, perfVars>>

\* render() up to its first await: uniformData[20..21] = canvas size, writeBuffer,
\* the projection is recorded, radixSorter.sort is called and awaits its readback
FrRenderStart ==
  /\ frPc = "idle"
  /\ frFrame < MaxFrFrames
  /\ frFrame' = frFrame + 1
  /\ frUniformSize' = canvasSize
  /\ frBinSize' = FrNotRun
  /\ frRenderSize' = FrNotRun
  /\ frPc' = "awaitSort"
  /\ UNCHANGED canvasSize
  /\ UNCHANGED <<sortVars, scanVars, binVars, tbVars, projVars, keyVars, rastVars,
                 imgVars, ptVars, pmVars, bsVars, scVars, perfVars>>

\* render() resumes: tileBinner.binSorted(sortedIndices, ..., canvas.width,
\* canvas.height), which awaits its readback
FrBinSorted ==
  /\ frPc = "awaitSort"
  /\ frBinSize' = canvasSize
  /\ frPc' = "awaitBin"
  /\ UNCHANGED <<canvasSize, frUniformSize, frRenderSize, frFrame>>
  /\ UNCHANGED <<sortVars, scanVars, binVars, tbVars, projVars, keyVars, rastVars,
                 imgVars, ptVars, pmVars, bsVars, scVars, perfVars>>

\* render() resumes: computeRenderer.render(..., canvas.width, canvas.height), then
\* the frame ends
FrRender ==
  /\ frPc = "awaitBin"
  /\ frRenderSize' = canvasSize
  /\ frPc' = "idle"
  /\ UNCHANGED <<canvasSize, frUniformSize, frBinSize, frFrame>>
  /\ UNCHANGED <<sortVars, scanVars, binVars, tbVars, projVars, keyVars, rastVars,
                 imgVars, ptVars, pmVars, bsVars, scVars, perfVars>>

FrNext ==
  \/ FrResize
  \/ FrRenderStart
  \/ FrBinSorted
  \/ FrRender

FrIdle ==
  /\ canvasSize = FrNotRun
  /\ frPc = "idle"
  /\ frUniformSize = FrNotRun
  /\ frBinSize = FrNotRun
  /\ frRenderSize = FrNotRun
  /\ frFrame = 0

(***************************************************************************)
(* SDFScene, ParameterEncoder and the samplers' scene-parameter buffer     *)
(***************************************************************************)
\* bound of the model: operations applied to the scene
MaxSceneOps == 2

PrimitiveTypes == {"sphere", "box"}

PrimitiveIds == {"a", "b"}

OperationTypes == {"union", "smoothUnion"}

\* alignTo(offset, alignment)
AlignTo(offset, alignment) == ((offset + alignment - 1) \div alignment) * alignment

\* the bytes encodeParameters emits for one primitive starting at byteOffset: a
\* vec3f centre padded to 16 bytes, then the f32 radius of a sphere or the padded
\* vec3f size of a box
PrimitiveEnd(byteOffset, type) ==
  LET centre == AlignTo(byteOffset, 16) + 16
  IN  IF type = "sphere" THEN centre + 4 ELSE AlignTo(centre, 16) + 16

RECURSIVE PrimitivesEnd(_, _, _)

PrimitivesEnd(prims, k, byteOffset) ==
  IF k > Len(prims) THEN byteOffset
  ELSE PrimitivesEnd(prims, k + 1, PrimitiveEnd(byteOffset, prims[k].type))

\* the f32 parameters of the operations: k of a smooth union, none of a union
RECURSIVE OperationsEnd(_, _, _)

OperationsEnd(ops, k, byteOffset) ==
  IF k > Len(ops) THEN byteOffset
  ELSE OperationsEnd(ops, k + 1, IF ops[k] = "smoothUnion" THEN byteOffset + 4 ELSE byteOffset)

\* encodeParameters(scene).byteLength: the primitives of getPrimitives() (the
\* primitive map), the operations of the tree, the final padding to 16 bytes
EncodedByteLength(map, ops) ==
  IF Len(map) = 0 THEN 4
  ELSE AlignTo(OperationsEnd(ops, 1, PrimitivesEnd(map, 1, 0)), 16)

\* getStructureHash(): the types and ids of the primitives of the tree and the
\* types of its operations, in traversal order
StructureHash(root, ops) == <<root, ops>>

\* primitiveMap.set(id, primitive): a new key is appended, an existing key keeps
\* its place
MapSet(map, prim) ==
  IF \E k \in 1..Len(map) : map[k].id = prim.id
    THEN [k \in 1..Len(map) |-> IF map[k].id = prim.id THEN prim ELSE map[k]]
    ELSE Append(map, prim)

\* if (requiredSize > this.sceneParamsBuffer.size) the buffer is recreated
ResizedBuffer(size, required) == IF required > size THEN required ELSE size

\* new GradientSampler(device, scene, numPoints) on a scene of one primitive
ScInit ==
  /\ \E type \in PrimitiveTypes :
       /\ scRoot = <<[type |-> type, id |-> "a"]>>
       /\ primitiveMap = <<[type |-> type, id |-> "a"]>>
  /\ scOperations = <<>>
  /\ pendingNode = <<>>
  /\ currentStructureHash = StructureHash(scRoot, scOperations)
  /\ sceneParamsBufferSize = Max(16, EncodedByteLength(primitiveMap, scOperations))
  /\ scWritten = EncodedByteLength(primitiveMap, scOperations)

\* rebuildIfNeeded() on the edited scene: nothing when the hash is unchanged, else
\* the buffer is resized when too small and updateSceneParameters() writes
RebuildIfNeeded(root, ops, map) ==
  LET newHash == StructureHash(root, ops)
      requiredSize == EncodedByteLength(map, ops)
  IN  IF newHash # currentStructureHash
        THEN /\ currentStructureHash' = newHash
             /\ sceneParamsBufferSize' = ResizedBuffer(sceneParamsBufferSize, requiredSize)
             /\ scWritten' = requiredSize
        ELSE UNCHANGED <<currentStructureHash, sceneParamsBufferSize, scWritten>>

\* scene.add(primitive) on a scene that has a root: the primitive enters the map
\* and becomes the pending node; then rebuildIfNeeded()
ScAdd ==
  /\ \E type \in PrimitiveTypes, id \in PrimitiveIds :
       LET prim == [type |-> type, id |-> id]
       IN  /\ primitiveMap' = MapSet(primitiveMap, prim)
           /\ pendingNode' = <<prim>>
           /\ RebuildIfNeeded(scRoot, scOperations, MapSet(primitiveMap, prim))
  /\ UNCHANGED <<scRoot, scOperations>>
  /\ UNCHANGED <<sortVars, scanVars, binVars, tbVars, projVars, keyVars, rastVars,
                 imgVars, ptVars, pmVars, bsVars, frVars, perfVars>>

\* scene.union() or scene.smoothUnion(), then rebuildIfNeeded()
ScApplyOperation ==
  /\ pendingNode # <<>>
  /\ Len(scOperations) < MaxSceneOps
  /\ \E op \in OperationTypes :
       /\ scRoot' = scRoot \o pendingNode
       /\ scOperations' = Append(scOperations, op)
       /\ RebuildIfNeeded(scRoot \o pendingNode, Append(scOperations, op), primitiveMap)
  /\ pendingNode' = <<>>
  /\ UNCHANGED primitiveMap
  /\ UNCHANGED <<sortVars, scanVars, binVars, tbVars, projVars, keyVars, rastVars,
                 imgVars, ptVars, pmVars, bsVars, frVars, perfVars>>

\* updateSceneParameters(), called every frame
ScUpdateSceneParameters ==
  /\ scWritten' = EncodedByteLength(primitiveMap, scOperations)
  /\ UNCHANGED <<scRoot, scOperations, pendingNode, primitiveMap, currentStructureHash,
                 sceneParamsBufferSize>>
  /\ UNCHANGED <<sortVars, scanVars, binVars, tbVars, projVars, keyVars, rastVars,
                 imgVars, ptVars, pmVars, bsVars, frVars, perfVars>>

ScNext ==
  \/ ScAdd
  \/ ScApplyOperation
  \/ ScUpdateSceneParameters

ScIdle ==
  /\ scRoot = <<>>
  /\ scOperations = <<>>
  /\ pendingNode = <<>>
  /\ primitiveMap = <<>>
  /\ currentStructureHash = <<>>
  /\ sceneParamsBufferSize = 0
  /\ scWritten = 0

(***************************************************************************)
(* PerformanceMonitor: rolling averages of the GPU stage durations         *)
(***************************************************************************)
MaxReadings == 3
MaxDuration == 2
HISTORY_SIZE == 30

\* stage durations in milliseconds, as the differences of two timestamps give them
Durations == 0..MaxDuration

\* the names updateAverage and getAverage are called with
TimingNames == {"Projection", "Radix Sort", "Render", "Sort"}

\* a quotient sum / length, kept as numerator and denominator
Ratio(n, d) == <<n, d>>

RatioAdd(a, b) == <<a[1] * b[2] + b[1] * a[2], a[2] * b[2]>>

RatioEq(a, b) == a[1] * b[2] = b[1] * a[2]

\* updateAverage(name, value): a name without a history reads as the empty history
UpdateAverage(t, name, value) ==
  LET history == Append(t[name], value)
  IN  [t EXCEPT ![name] = IF Len(history) > HISTORY_SIZE THEN Tail(history)
                          ELSE history]

\* getAverage(name)
GetAverage(t, name) ==
  IF Len(t[name]) = 0 THEN Ratio(0, 1)
  ELSE Ratio(SumRange(t[name], 1, Len(t[name]) + 1), Len(t[name]))

\* the map readTimings() returns once the three durations are recorded
SmoothedStages(t) ==
  [name \in {"Projection", "Radix Sort", "Render", "Total GPU"} |->
     CASE name = "Projection" -> GetAverage(t, "Projection")
       [] name = "Radix Sort" -> GetAverage(t, "Sort")
       [] name = "Render" -> GetAverage(t, "Render")
       [] OTHER -> RatioAdd(RatioAdd(GetAverage(t, "Projection"),
                                     GetAverage(t, "Sort")),
                            GetAverage(t, "Render"))]

PerfInit ==
  /\ timestampsSupported \in BOOLEAN
  /\ timings = [name \in TimingNames |-> <<>>]
  /\ stages = <<>>
  /\ perfReadings = 0

\* readTimings()
ReadTimings ==
  /\ perfReadings < MaxReadings
  /\ perfReadings' = perfReadings + 1
  /\ IF ~timestampsSupported
     THEN /\ stages' = <<>>
          /\ UNCHANGED timings
     ELSE \E projection \in Durations, sort \in Durations, render \in Durations :
            LET updated == UpdateAverage(UpdateAverage(UpdateAverage(timings,
                               "Projection", projection), "Radix Sort", sort),
                               "Render", render)
            IN  /\ timings' = updated
                /\ stages' = SmoothedStages(updated)
  /\ UNCHANGED timestampsSupported
  /\ UNCHANGED <<sortVars, scanVars, binVars, tbVars, projVars, keyVars, rastVars,
                 imgVars, ptVars, pmVars, bsVars, frVars, scVars>>

PerfNext == ReadTimings

PerfIdle ==
  /\ timestampsSupported = FALSE
  /\ timings = [name \in TimingNames |-> <<>>]
  /\ stages = <<>>
  /\ perfReadings = 0

(***************************************************************************)
(* Specifications: one component runs, the others stay as constructed      *)
(***************************************************************************)
SortIdle == SortInit /\ rsNumSplats = 0

ScanIdle == ScanInit /\ scanNumElements = 0

BinIdle == BinInit /\ numSplats = 0

ProjIdle == ProjInit /\ PjNumSplats = 1 /\ worldSplats[0].z = -2

KeyIdle == KeyInit /\ encDepth = [i \in 0..1 |-> ZeroWord]

RastIdle == pxSegment = <<>> /\ RastStart

ImgIdle == imgSegments = [p \in Pixels |-> <<>>] /\ ImgStart

PtIdle ==
  ptCounts = <<>> /\ ptOffsets = <<>> /\ ptIndices = <<>> /\ ptFilled = <<>> /\ PtStart

PmIdle == PmInit

LaterIdle == KeyIdle /\ RastIdle /\ ImgIdle /\ PtIdle

InitSort == SortInit /\ ScanIdle /\ BinIdle /\ TbInit /\ ProjIdle /\ LaterIdle /\ PmIdle /\ BsIdle /\ FrIdle /\ ScIdle /\ PerfIdle

InitScan == ScanInit /\ SortIdle /\ BinIdle /\ TbInit /\ ProjIdle /\ LaterIdle /\ PmIdle /\ BsIdle /\ FrIdle /\ ScIdle /\ PerfIdle

InitBin == BinInit /\ TbInit /\ SortIdle /\ ScanIdle /\ ProjIdle /\ LaterIdle /\ PmIdle /\ BsIdle /\ FrIdle /\ ScIdle /\ PerfIdle

InitProj == ProjInit /\ SortIdle /\ ScanIdle /\ BinIdle /\ TbInit /\ LaterIdle /\ PmIdle /\ BsIdle /\ FrIdle /\ ScIdle /\ PerfIdle

EarlierIdle == SortIdle /\ ScanIdle /\ BinIdle /\ TbInit /\ ProjIdle

InitKey == KeyInit /\ EarlierIdle /\ RastIdle /\ ImgIdle /\ PtIdle /\ PmIdle /\ BsIdle /\ FrIdle /\ ScIdle /\ PerfIdle

InitRast == RastInit /\ EarlierIdle /\ KeyIdle /\ ImgIdle /\ PtIdle /\ PmIdle /\ BsIdle /\ FrIdle /\ ScIdle /\ PerfIdle

InitImg == ImgInit /\ EarlierIdle /\ KeyIdle /\ RastIdle /\ PtIdle /\ PmIdle /\ BsIdle /\ FrIdle /\ ScIdle /\ PerfIdle

InitPt == PtInit /\ EarlierIdle /\ KeyIdle /\ RastIdle /\ ImgIdle /\ PmIdle /\ BsIdle /\ FrIdle /\ ScIdle /\ PerfIdle

\* the radix sorter, frame after frame
SpecSort == InitSort /\ [][SortNext]_vars

\* the prefix-sum scanner driven on its own: the recorded pass is submitted
SpecScan == InitScan /\ [][ScanNext]_vars

\* GPUTileBinner.binSplats, the device queue, and TileBinner.binSorted
SpecBin == InitBin /\ [][BinNext \/ TbBinSorted]_vars

\* the projector followed by the count and fill passes
SpecProj == InitProj /\ [][ProjNext]_vars

\* the two depth key encoders applied to the depths of two splats
SpecKey == InitKey /\ [][KeyNext]_vars

\* one pixel thread of the rasteriser walking its tile's segment
SpecRast == InitRast /\ [][RastNext]_vars

\* the pixel threads of one rasteriser dispatch, interleaved
SpecImg == InitImg /\ [][ImgNext]_vars

\* one dispatch of the per-tile sort, workgroup after workgroup
SpecPt == InitPt /\ [][PtNext]_vars

InitPm == PmInit /\ EarlierIdle /\ LaterIdle /\ BsIdle /\ FrIdle /\ ScIdle /\ PerfIdle

\* fitSplatsToScene, with swap() and reinitialize() called between its runs
SpecPm == InitPm /\ [][PmNext]_vars

InitBs == BsInit /\ EarlierIdle /\ LaterIdle /\ PmIdle /\ FrIdle /\ ScIdle /\ PerfIdle

\* one call of BitonicSorter.sort and the execution of what it recorded
SpecBs == InitBs /\ [][BsNext]_vars

InitFr == FrInit /\ EarlierIdle /\ LaterIdle /\ PmIdle /\ BsIdle /\ ScIdle /\ PerfIdle

\* the frames of render() with resize events in between
SpecFr == InitFr /\ [][FrNext]_vars

InitSc == ScInit /\ EarlierIdle /\ LaterIdle /\ PmIdle /\ BsIdle /\ FrIdle /\ PerfIdle

\* scene edits, each followed by rebuildIfNeeded(), and the per-frame parameter update
SpecSc == InitSc /\ [][ScNext]_vars

InitPerf == PerfInit /\ EarlierIdle /\ LaterIdle /\ PmIdle /\ BsIdle /\ FrIdle /\ ScIdle

\* PerformanceMonitor.readTimings, called once per measured frame
SpecPerf == InitPerf /\ [][PerfNext]_vars

(***************************************************************************)
(* Properties of the radix sorter (SpecSort)                               *)
(***************************************************************************)
\* the splat index a payload word holds
PayloadIndex(w) == Lo16(w)

\* C1: after the sorter ran on N splats the returned array has exactly N entries
\* and holds every index of [0, N) exactly once, whatever N is (also when N is
\* not a multiple of the block size)
C1_SortedIndicesBijection ==
  sortPc = "done" =>
    /\ DOMAIN sortedIndices = 0..(rsNumSplats - 1)
    /\ \A i \in 0..(rsNumSplats - 1) :
         Cardinality({s \in DOMAIN sortedIndices : sortedIndices[s] = ToWord(i)}) = 1

\* C2: walking the sorted indices upward visits the splats far to near: the depth
\* at position s is at least the depth at position s + 1 (stated for the sizes
\* that need no padding)
C2_WalkFarToNear ==
  (sortPc = "done" /\ PaddedSize(rsNumSplats) = rsNumSplats) =>
    \A s \in 0..(rsNumSplats - 2) :
      FloatLeq(projectedDepth[PayloadIndex(sortedIndices[s + 1])],
               projectedDepth[PayloadIndex(sortedIndices[s])])

\* C3: the first N payloads of the sorter's output visit the splats in ascending
\* depth order
C3_PayloadsAscendingDepth ==
  sortPc = "done" =>
    \A i \in 0..(rsNumSplats - 2) :
      FloatLeq(projectedDepth[PayloadIndex(sortedIndices[i])],
               projectedDepth[PayloadIndex(sortedIndices[i + 1])])

(***************************************************************************)
(* Properties of the tile binner (SpecBin)                                 *)
(***************************************************************************)
\* segment t of the index array: [offsets[t], offsets[t] + counts[t])
SegmentOf(t) == tileOffsetsBuffer[t]..(tileOffsetsBuffer[t] + tileCountsBuffer[t] - 1)

BinTiles == 0..(BinNumTiles - 1)

\* C4: after the count and the fill pass of a frame, the number of entries the
\* fill pass wrote into segment t equals counts[t], for every tile t and every
\* interleaving of the threads
C4_SegmentEntriesEqualCounts ==
  "fill" \in executed =>
    \A t \in BinTiles :
      Cardinality({e \in fillLog : e.pos \in SegmentOf(t)}) = tileCountsBuffer[t]

\* C5: in every frame the tile counts sum to total and the index array has exactly
\* total entries, also when total is 0 and when total did not change
C5_TotalAndLength ==
  /\ binPc \in {"scan", "awaitScanInput", "scanned", "returned", "threw"} =>
       /\ SumTo(tileCountsBuffer, BinNumTiles) = totalIndices
       /\ Cardinality(DOMAIN tileIndicesBuffer) = totalIndices
  /\ (tbRan /\ binFrame > 0) =>
       /\ SumTo(tileCounts, tbNumTiles) = totalSplatCount
       /\ Cardinality(DOMAIN splatIndicesBuffer) = totalSplatCount

\* C6: a device operation executes only after the operations it depends on were
\* submitted and have completed: scan after count, the copy of offsets into
\* current offsets after scan, fill after that copy
C6_DependenciesCompleted ==
  /\ "scan" \in executed => "count" \in executed
  /\ "copyOffsets" \in executed => "scan" \in executed
  /\ (devOp = "fill" \/ "fill" \in executed) => "copyOffsets" \in executed

\* the pixel rectangle of tile t meets the screen bounds of a projected splat
IntersectsTile(p, t) ==
  LET tx == t % BinNtx
      ty == t \div BinNtx
  IN  /\ p.minX <= (tx + 1) * tileSize
      /\ p.maxX >= tx * tileSize
      /\ p.minY <= (ty + 1) * tileSize
      /\ p.maxY >= ty * tileSize

\* C8: every splat index stored in segment t has a screen AABB that intersects
\* the pixel rectangle of tile t (stated for the frames whose scan has executed)
C8_SegmentSplatsOverlapTile ==
  ("fill" \in executed /\ "scan" \in executed) =>
    \A t \in BinTiles : \A pos \in SegmentOf(t) :
      IntersectsTile(projectedSplats[tileIndicesBuffer[pos]], t)

\* C9: in the index array handed on, every segment is sorted far to near: of two
\* consecutive entries of a segment the first is at least as deep, under every
\* interleaving of the fill threads (stated for the frames whose scan has executed)
C9_SegmentsFarToNear ==
  ("fill" \in executed /\ "scan" \in executed) =>
    \A t \in BinTiles : \A pos \in SegmentOf(t) :
      (pos + 1) \in SegmentOf(t) =>
        projectedSplats[tileIndicesBuffer[pos]].depth
          >= projectedSplats[tileIndicesBuffer[pos + 1]].depth

(***************************************************************************)
(* Properties of the projector (SpecProj)                                  *)
(***************************************************************************)
BehindCamera(i) == ClipPos(worldSplats[i]).w <= 0

\* C10: a splat whose centre is behind the camera (clip w <= 0) increments no
\* tile counter and is stored in no tile segment
C10_BehindCameraUnbinned ==
  \A i \in DOMAIN worldSplats :
    BehindCamera(i) => \A e \in pjCountLog \cup pjFillLog : e[1] # i

(***************************************************************************)
(* Tile overlap of the binners (SpecBin)                                   *)
(***************************************************************************)
\* the screen AABB of p does not reach into the viewport: it lies entirely left
\* of, right of, above or below it
OffScreen(p) ==
  \/ p.maxX < 0
  \/ p.minX > screenWidth
  \/ p.maxY < 0
  \/ p.minY > screenHeight

\* C11: in a scene of one splat whose AABB does not reach into the viewport (on
\* any of the four sides) no tile counter is incremented and no segment holds the
\* splat, in the GPU binner and in TileBinner.binSorted
C11_OffScreenUnbinned ==
  (binFrame > 0 /\ numSplats = 1 /\ OffScreen(projectedSplats[0])) =>
    /\ \A t \in BinTiles : tileCountsBuffer[t] = 0
    /\ fillLog = {}
    /\ tbRan => (totalSplatCount = 0 /\ \A t \in BinTiles : tileCounts[t] = 0)

\* the tiles of the 16-pixel grid whose pixel rectangle the AABB of p overlaps
OverlapTiles(p) ==
  {t \in BinTiles :
     /\ p.minX < ((t % BinNtx) + 1) * tileSize
     /\ p.maxX > (t % BinNtx) * tileSize
     /\ p.minY < ((t \div BinNtx) + 1) * tileSize
     /\ p.maxY > (t \div BinNtx) * tileSize}

\* the number of stores of splat i the fill pass made for tile t
FillStores(i, t) == Cardinality({e \in fillLog : e.splat = i /\ e.tile = t})

\* the number of entries of segment t that hold splat i
SegmentEntries(i, t) ==
  Cardinality({pos \in SegmentOf(t) : tileIndicesBuffer[pos] = i})

CpuSegmentOf(t) == tileOffsets[t]..(tileOffsets[t] + tileCounts[t] - 1)

\* the number of times binSorted stored splat i in segment t
CpuEntries(i, t) == Cardinality({pos \in CpuSegmentOf(t) : indices[pos] = i})

\* C13: the multiset of (tile, splat) pairs the GPU count and fill passes produce
\* equals the multiset TileBinner.binSorted produces for the same inputs
C13_GpuPairsEqualCpuPairs ==
  ("fill" \in executed /\ tbRan /\ binFrame > 0) =>
    \A t \in BinTiles : \A i \in 0..(numSplats - 1) :
      FillStores(i, t) = CpuEntries(i, t)

\* C14: the tile counter, the tile filler and every other stage that decides tile
\* overlap (the shaders of TileBinner, binSorted) select the same tiles for every
\* splat, and the tiles counted are the tiles written
C14_IdenticalOverlapPredicate ==
  binFrame > 0 =>
    /\ \A i \in 0..(numSplats - 1) :
         LET p == projectedSplats[i]
         IN  /\ GpuTileSet(p, BinNtx, BinNty)
                  = CountPipelineTileSet(p, screenWidth, screenHeight, BinNtx, BinNty)
             /\ GpuTileSet(p, BinNtx, BinNty)
                  = CpuTileSet(p, screenWidth, screenHeight, BinNtx, BinNty)
    /\ "fill" \in executed =>
         \A t \in BinTiles :
           tileCountsBuffer[t] = Cardinality({e \in fillLog : e.tile = t})

(***************************************************************************)
(* Padding of the key and payload arrays (SpecSort)                        *)
(***************************************************************************)
\* C15: when the sorting passes start, every slot i with N <= i < padded length
\* holds 0xFFFFFFFF in the key array and in the payload array, in every frame
C15_PaddingIsSentinel ==
  sortPc = "uploaded" =>
    \A i \in rsNumSplats..(PaddedSize(rsNumSplats) - 1) :
      /\ keysBuffer[i] = AllOnes
      /\ payloadBuffer[i] = AllOnes

(***************************************************************************)
(* Properties of the depth key encoders (SpecKey)                          *)
(***************************************************************************)
\* exponent field of an f32 bit pattern
Exponent(w) == (w[3] % 128) * 2 + (w[2] \div 128)

IsNaN(w) == Exponent(w) = 255 /\ ((w[2] % 128) # 0 \/ w[1] # 0 \/ w[0] # 0)

IsFinite(w) == Exponent(w) # 255

\* a < b as f32 values (neither is a NaN)
FloatLt(a, b) == FloatLeq(a, b) /\ ~FloatLeq(b, a)

\* a < b as unsigned 32-bit integers
WordLt(a, b) == WordLeq(a, b) /\ a # b

\* the key arrays that have been computed
KeyArrays == {k \in {cpuKeys, gpuKeys} : k # <<>>}

\* C16: for any two finite depths d1 < d2 (negative, zero or positive) both
\* encoders give encode(d1) < encode(d2) as unsigned 32-bit integers
C16_EncodeMonotone ==
  \A k \in KeyArrays : \A i, j \in 0..1 :
    (IsFinite(encDepth[i]) /\ IsFinite(encDepth[j]) /\ FloatLt(encDepth[i], encDepth[j]))
      => WordLt(k[i], k[j])

\* C17: negative zero and positive zero get the same key
C17_SignedZerosSameKey ==
  \A k \in KeyArrays : \A i, j \in 0..1 :
    (encDepth[i] = Word(128, 0, 0, 0) /\ encDepth[j] = ZeroWord) => k[i] = k[j]

\* C18: a NaN depth, of any bit pattern and either sign, gets a key above the key
\* of every finite depth, so that it sorts to the tail
C18_NaNSortsToTail ==
  \A k \in KeyArrays : \A i, j \in 0..1 :
    (IsNaN(encDepth[i]) /\ IsFinite(encDepth[j])) => WordLt(k[j], k[i])

(***************************************************************************)
(* Properties of the rasteriser (SpecRast)                                 *)
(***************************************************************************)
\* the splats of scenario S2 at the central pixel: the nearer one red with
\* opacity 0.5, the farther one green with opacity 1, both with Gaussian weight 1
NearRed(s) == s.color = <<Unit, 0, 0>> /\ s.opacity = Unit \div 2 /\ s.gaussian = Unit

FarGreen(s) == s.color = <<0, Unit, 0>> /\ s.opacity = Unit /\ s.gaussian = Unit

\* C19: with the two splats of S2 in the pixel's segment (in the order the sorter
\* and the binner hand them on, whichever it is) the pixel's red channel is 0.5
\* and its green channel is 0.5
C19_TwoOccludingSplats ==
  (/\ pxPc = "done"
   /\ Len(pxSegment) = 2
   /\ \/ FarGreen(pxSegment[1]) /\ NearRed(pxSegment[2])
      \/ NearRed(pxSegment[1]) /\ FarGreen(pxSegment[2]))
    => (pxFinalColor[1] = Unit \div 2 /\ pxFinalColor[2] = Unit \div 2)

\* C20: the stored colour differs from the colour of the same walk without the
\* early exit by at most 0.01 in every channel, for every segment
C20_EarlyExitWithinOnePercent ==
  pxPc = "done" =>
    \A k \in 1..3 :
      Abs(pxFinalColor[k] - BlendFrom(pxSegment, 0, <<0, 0, 0>>, 0)[k]) <= Unit \div 100

\* C21: when the pixel's tile segment is empty (count 0) the rasteriser stores
\* exactly the background colour to the pixel
C21_EmptySegmentIsBackground ==
  (pxPc = "done" /\ Len(pxSegment) = 0) => pxFinalColor = BackgroundColor

C21_Witness == pxPc = "done" /\ Len(pxSegment) = 0 /\ pxFinalColor # <<>>

(***************************************************************************)
(* Allocation and frame control of the binners (SpecBin)                   *)
(***************************************************************************)
\* C22: whenever the fill pass runs, the index buffer has room for at least total
\* entries (it was reallocated when the total changed) and no store of the fill
\* is discarded; likewise for the buffer TileBinner.binSorted allocates
C22_IndexCapacity ==
  /\ (devOp = "fill" \/ "fill" \in executed) =>
       /\ totalIndices = SumTo(tileCountsBuffer, BinNumTiles)
       /\ Cardinality(DOMAIN tileIndicesBuffer) >= totalIndices
       /\ \A e \in fillLog : e.pos \in DOMAIN tileIndicesBuffer
  /\ (tbRan /\ binFrame > 0) =>
       /\ Cardinality(DOMAIN splatIndicesBuffer) >= totalSplatCount
       /\ DOMAIN indices = 0..(totalSplatCount - 1)

C22_Witness ==
  /\ binFrame = MaxBinFrames
  /\ "fill" \in executed
  /\ tbRan
  /\ totalIndices = 4 * MaxBinSplats
  /\ Cardinality(fillLog) = totalIndices

\* C23: when the total of a frame exceeds the sanity bound (N * 50, scaled) the
\* frame is skipped: the fill pass is neither submitted nor run on that frame
C23_OversizedFrameSkipped ==
  (/\ binPc \in {"scan", "awaitScanInput", "scanned", "returned", "threw"}
   /\ ExceedsReasonable(totalIndices, numSplats)) =>
    /\ devOp # "fill"
    /\ "fill" \notin executed
    /\ \A k \in DOMAIN queue : queue[k] # "fill"

\* C24: after a change of viewport size every allocation and cached tile-grid value
\* matches the new viewport before a pass uses it: the buffers have one element
\* per tile and the cached grid is ceil(width / T) by ceil(height / T), also when
\* the new viewport has as many tiles as the old one
C24_GridMatchesViewport ==
  /\ binFrame > 0 =>
       /\ DOMAIN tileCountsBuffer = BinTiles
       /\ DOMAIN tileOffsetsBuffer = BinTiles
       /\ DOMAIN tileCurrentOffsetsBuffer = BinTiles
  /\ (tbRan /\ binFrame > 0) =>
       /\ tbNumTilesX = NumTilesX(screenWidth)
       /\ tbNumTilesY = NumTilesY(screenHeight)
       /\ tbNumTiles = tbNumTilesX * tbNumTilesY

(***************************************************************************)
(* Properties of the rasteriser dispatch (SpecImg)                         *)
(***************************************************************************)
\* C25: the value stored to every pixel is a function of the rasteriser's inputs
\* alone: whatever the interleaving of the pixel threads, pixel p holds the result
\* of walking p's segment
C25_PixelsDeterministic ==
  \A p \in Pixels :
    imgPc[p] = "done" => outputTexture[p] = WalkFrom(imgSegments[p], 0, <<0, 0, 0>>, 0)

C25_Witness ==
  /\ \A p \in Pixels : imgPc[p] = "done" /\ Len(imgSegments[p]) = MaxSegmentLen - 1
  /\ outputTexture[0] # outputTexture[1]

(***************************************************************************)
(* Properties of the per-tile sort (SpecPt)                                *)
(***************************************************************************)
\* segment t of the packed index buffer
PtSegment(t) == ptOffsets[t]..(ptOffsets[t] + ptCounts[t] - 1)

\* C27: after the per-tile sort ran on a filled index array, the entries of every
\* tile's segment are in non-increasing depth order, whatever order the fill pass
\* appended them in and however the threads of the sorting workgroups interleave
C27_SegmentsSortedAfterPerTileSort ==
  ptDone = PtTiles =>
    \A t \in PtTiles : \A pos \in PtSegment(t) :
      (pos + 1) \in PtSegment(t) =>
        PtDepthOf(ptIndices[pos]) >= PtDepthOf(ptIndices[pos + 1])

(***************************************************************************)
(* Properties of the binner's frame (SpecBin), continued                   *)
(***************************************************************************)
\* the readbacks the host has awaited in the current frame
ReadbacksAwaited == executed \cap {"readCounts", "readScanInput"}

\* C26: per frame the host awaits at most one GPU-to-CPU readback, and that
\* readback comes after the scan and before the fill
C26_OneReadbackAfterScan ==
  /\ Cardinality(ReadbacksAwaited) <= 1
  /\ ReadbacksAwaited # {} => "scan" \in executed
  /\ (devOp = "fill" \/ "fill" \in executed) => ReadbacksAwaited # {}

\* C28: every position the fill pass writes for tile t lies in
\* [offsets[t], offsets[t] + counts[t]): no write lands in another tile's segment
\* or at an index >= total, under every interleaving of the fill threads
C28_FillWritesInOwnSegment ==
  \A e \in fillLog :
    /\ e.pos \in SegmentOf(e.tile)
    /\ e.pos < totalIndices
    /\ \A t \in BinTiles \ {e.tile} : e.pos \notin SegmentOf(t)

\* C29: at the moment the count pass of a frame starts (queued, or started with no
\* thread having run yet), every tile counter is zero, in every frame
C29_CountersZeroAtCountStart ==
  ((queue # <<>> /\ Head(queue) = "count")
     \/ (devOp = "count" /\ \A s \in 0..(numSplats - 1) : threadPos[s] = 1)) =>
    \A t \in BinTiles : tileCountsBuffer[t] = 0

\* the count pass of a later frame is about to run after a frame that counted hits
C29_Witness ==
  /\ binFrame = MaxBinFrames
  /\ devOp = "count"
  /\ numSplats > 0
  /\ \A s \in 0..(numSplats - 1) : threadPos[s] = 1
  /\ totalIndices > 0
  /\ \A t \in BinTiles : tileCountsBuffer[t] = 0

(***************************************************************************)
(* Properties of the radix sorter (SpecSort), continued                    *)
(***************************************************************************)
\* the scatter loop has run all its passes
ScatterLoopDone == (sortPc = "scatter" /\ sortPass = NumPasses) \/ sortPc = "done"

SourceAlpha(s) == EvaluateSplat(s)[4]

\* C31: for every splat the rasteriser has visited, the source alpha used in
\* compositing is the Gaussian weight multiplied by the splat's opacity
C31_SourceAlphaIsWeightTimesOpacity ==
  \A k \in 1..pxI :
    SourceAlpha(pxSegment[k]) = Mul(pxSegment[k].gaussian, pxSegment[k].opacity)

(***************************************************************************)
(* Properties of the per-tile sort (SpecPt), continued                     *)
(***************************************************************************)
\* C36: the workgroup of tile t modifies only entries inside tile t's own segment
\* [offsets[t], offsets[t] + counts[t]) of the packed index buffer: a step that
\* changes an entry changes one of the running tile's segment
C36_WritesStayInOwnSegment ==
  [][\A pos \in DOMAIN ptIndices :
       ptIndices'[pos] # ptIndices[pos] => pos \in PtSegment(ptTile)]_vars

\* the number of entries of segment t of the buffer that hold splat s
PtEntries(buffer, t, s) == Cardinality({pos \in PtSegment(t) : buffer[pos] = s})

\* C37: after the per-tile sort every tile's segment holds the same multiset of
\* splat indices that the fill pass placed there, for every interleaving of the
\* workgroup's threads
C37_SegmentsKeepTheirEntries ==
  ptDone = PtTiles =>
    \A t \in PtTiles : \A s \in PtSplats :
      PtEntries(ptIndices, t, s) = PtEntries(ptFilled, t, s)

(***************************************************************************)
(* Properties of the depth keys (SpecKey), continued                       *)
(***************************************************************************)
\* C38: for every depth bit pattern the CPU key encoding of RadixSorter.sort gives
\* the same key as the GPU key encoding of extract-depth-keys.wgsl
C38_CpuKeyEqualsGpuKey ==
  (cpuKeys # <<>> /\ gpuKeys # <<>>) => \A i \in 0..1 : cpuKeys[i] = gpuKeys[i]

(***************************************************************************)
(* Properties of the ping-pong position buffers (SpecPm)                   *)
(***************************************************************************)
\* C32: in every gradient-descent iteration the buffer the update pass reads is
\* never the buffer it writes, and what it reads was written by the previous
\* iteration (by reinitialize() for the first iteration), after any number of
\* preceding swap() and reinitialize() calls
C32_ReadsPreviousWritesOther ==
  fitRead.buffer # "none" =>
    /\ fitRead.buffer # fitWrite
    /\ fitRead.stamp = (IF fitI = 1 THEN PmStamp("reinitialize", fitCall, 0)
                        ELSE PmStamp("update", fitCall, fitI - 2))

\* the last iteration of a later run, entered with B as the current buffer
C32_Witness ==
  /\ fitCall = MaxFitCalls
  /\ fitI = GradientDescentIterations
  /\ fitRead.buffer = "B"
  /\ fitRead.stamp.op = "update"
  /\ fitWrite = "A"

(***************************************************************************)
(* Properties of the bitonic sorter (SpecBs)                               *)
(***************************************************************************)
\* every recorded pass has executed
BsAllExecuted == bsPc = "device" /\ bsExecuted = Len(bsRecorded)

\* C33: after all compare-exchange passes recorded by BitonicSorter.sort have
\* executed on the device, the depth buffer is sorted in ascending order with the
\* index buffer permuted identically, for every padded size that is a power of two
C33_BitonicSorted ==
  BsAllExecuted =>
    /\ \A i \in DOMAIN bsDepths : (i + 1) \in DOMAIN bsDepths => bsDepths[i] <= bsDepths[i + 1]
    /\ \A i \in DOMAIN bsDepths : bsDepths[i] = bsInput[bsIndices[i]]
    /\ \A i, h \in DOMAIN bsIndices : i # h => bsIndices[i] # bsIndices[h]

(***************************************************************************)
(* Properties of the frame (SpecFr)                                        *)
(***************************************************************************)
\* C34: within one frame projection, tile binning and rasterisation all use the
\* same viewport width and height, also when a resize event runs while the frame
\* is suspended at an await between those stages
C34_OneViewportPerFrame ==
  /\ frBinSize # FrNotRun => frBinSize = frUniformSize
  /\ frRenderSize # FrNotRun => frRenderSize = frUniformSize

(***************************************************************************)
(* Properties of the binner's output as the rasteriser reads it (SpecBin)  *)
(***************************************************************************)
\* tileIdx = tileY * uniforms.numTilesX + tileX of the pixels of tile column tx and
\* tile row ty, with the numTilesX the binner hands to the rasteriser
RasterTileIdx(tx, ty) == ty * tbNumTilesX + tx

\* C35: for every pixel inside the viewport, every read of its rasteriser thread is
\* in bounds of what the binner produced for this frame: its tile index is below the
\* number of tiles of the counts and offsets buffers, and every index
\* tileOffset + i it reads (i < count) is below the length of the index buffer
C35_RasterReadsInBounds ==
  (tbRan /\ binFrame > 0) =>
    \A tx \in 0..(NumTilesX(screenWidth) - 1) : \A ty \in 0..(NumTilesY(screenHeight) - 1) :
      /\ RasterTileIdx(tx, ty) \in DOMAIN tileCounts
      /\ RasterTileIdx(tx, ty) \in DOMAIN tileOffsets
      /\ \A i \in 0..(tileCounts[RasterTileIdx(tx, ty)] - 1) :
           (tileOffsets[RasterTileIdx(tx, ty)] + i) \in DOMAIN splatIndicesBuffer

(***************************************************************************)
(* Properties of the scene-parameter buffer (SpecSc)                       *)
(***************************************************************************)
\* C39: after any sequence of scene edits, each followed by rebuildIfNeeded(),
\* whenever updateSceneParameters() writes the encoded scene parameters their byte
\* length does not exceed the current size of the scene-parameter buffer
C39_ParametersFitBuffer == scWritten <= sceneParamsBufferSize

(***************************************************************************)
(* Properties of the performance monitor (SpecPerf)                        *)
(***************************************************************************)
\* C40: whenever readTimings() has returned a map, the value it reports under
\* "Radix Sort" equals the average of the sort durations recorded so far, kept
\* over at most the last HISTORY_SIZE samples.
C40_RadixSortIsRollingAverage ==
  stages # <<>> =>
    /\ Len(timings["Radix Sort"]) \in 1..HISTORY_SIZE
    /\ RatioEq(stages["Radix Sort"],
               Ratio(SumRange(timings["Radix Sort"], 1, Len(timings["Radix Sort"]) + 1),
                     Len(timings["Radix Sort"])))

====
